---- MODULE Spec2Model ----
(***************************************************************************)
(* A model of ai-renamer's per-file pipeline (src/src/processFile.js), its *)
(* name synthesis (src/src/getNewName.js) and its pitch-deck classifier    *)
(* (src/src/detectPitchDeck.js).                                           *)
(*                                                                         *)
(* A JavaScript string is a sequence of characters; a character is a       *)
(* one-character TLA+ string, except the few that a TLA+ string literal    *)
(* cannot hold, which are named tokens (Backtick, ...).                    *)
(***************************************************************************)
EXTENDS Integers, Sequences, FiniteSets, TLC

VARIABLES
    pc,            \* per file: the position of processFile's body
    options,       \* per file: the option bag handed to processFile
    frame,         \* per file: processFile's local variables
    calls,         \* per file: how often each collaborator was invoked
    console,       \* per file: the kinds of message written to the console
    outcome,       \* per file: how the pipeline ended
    disk,          \* the absolute paths at which a file exists
    tmpDirs,       \* the frame working directories that exist
    logSink,       \* the entries recordLogEntry has stored, oldest first
    stdinIsTTY,    \* process.stdin.isTTY
    shell,         \* what running a logged revert command did
    arg,           \* the argument of the pure function under study
    ret,           \* its result
    lastIndex      \* COMPANY_REGEX.lastIndex, the state of the classifier's pattern

vars == <<pc, options, frame, calls, console, outcome, disk, tmpDirs,
          logSink, stdinIsTTY, shell, arg, ret, lastIndex>>

\* The state of the calls of processFile and of what they act on.
pipelineVars == <<pc, options, frame, calls, console, outcome, disk, tmpDirs, logSink, stdinIsTTY, shell>>

(***************************************************************************)
(* Strings                                                                 *)
(***************************************************************************)
Chars(s) == [i \in 1..Len(s) |-> SubSeq(s, i, i)]

Backtick == "BACKTICK"
LeftDoubleQuote == "LDQUO"
RightDoubleQuote == "RDQUO"
LeftSingleQuote == "LSQUO"
RightSingleQuote == "RSQUO"
FullwidthColon == "FWCOLON"
NullChar == "NUL"
Accented == "e-acute"

Whitespace == {" ", "\t", "\n", "\r"}
UpperCase == Chars("ABCDEFGHIJKLMNOPQRSTUVWXYZ")
LowerCase == Chars("abcdefghijklmnopqrstuvwxyz")
Digit == {"0", "1", "2", "3", "4", "5", "6", "7", "8", "9"}
Letter == {UpperCase[i] : i \in 1..26} \cup {LowerCase[i] : i \in 1..26} \cup {Accented}
WordChar == Letter \cup Digit \cup {"_"}

Min(S) == CHOOSE x \in S : \A y \in S : x <= y
Max(S) == CHOOSE x \in S : \A y \in S : x >= y

ToLowerChar(c) ==
    IF \E i \in 1..26 : UpperCase[i] = c
    THEN LowerCase[CHOOSE i \in 1..26 : UpperCase[i] = c]
    ELSE c

ToUpperChar(c) ==
    IF \E i \in 1..26 : LowerCase[i] = c
    THEN UpperCase[CHOOSE i \in 1..26 : LowerCase[i] = c]
    ELSE c

toLowerCase(s) == [i \in 1..Len(s) |-> ToLowerChar(s[i])]

trim(s) ==
    LET keep == {i \in 1..Len(s) : s[i] \notin Whitespace}
    IN  IF keep = {} THEN <<>> ELSE SubSeq(s, Min(keep), Max(keep))

slice(s, n) == SubSeq(s, 1, IF n < Len(s) THEN n ELSE Len(s))

\* The first index >= i of s that holds no whitespace, Len(s) + 1 if none.
SkipSpace(s, i) ==
    Min({j \in i..(Len(s) + 1) : j = Len(s) + 1 \/ s[j] \notin Whitespace})

\* The first index >= i of s that holds a line break, Len(s) + 1 if none.
LineEnd(s, i) ==
    Min({j \in i..(Len(s) + 1) : j = Len(s) + 1 \/ s[j] = "\n"})

\* Whether lit, compared without regard to case, stands in s at index i.
MatchAt(s, i, lit) ==
    /\ i >= 1
    /\ i + Len(lit) - 1 <= Len(s)
    /\ toLowerCase(SubSeq(s, i, i + Len(lit) - 1)) = toLowerCase(lit)

includes(s, lit) == \E i \in 1..(Len(s) + 1) : i + Len(lit) - 1 <= Len(s) /\ SubSeq(s, i, i + Len(lit) - 1) = lit

lastIndexOf(s, c) ==
    LET at == {i \in 1..Len(s) : s[i] = c}
    IN  IF at = {} THEN 0 ELSE Max(at)

\* String.prototype.split on a regular expression matching runs of seps.
RECURSIVE SplitRuns(_, _)
SplitRuns(s, seps) ==
    LET at == {i \in 1..Len(s) : s[i] \in seps}
    IN  IF at = {} THEN <<s>>
        ELSE LET i == Min(at)
                 j == Min({k \in i..(Len(s) + 1) : k = Len(s) + 1 \/ s[k] \notin seps})
             IN  <<SubSeq(s, 1, i - 1)>> \o SplitRuns(SubSeq(s, j, Len(s)), seps)

\* String.prototype.split on a one-character separator.
RECURSIVE SplitChar(_, _)
SplitChar(s, c) ==
    LET at == {i \in 1..Len(s) : s[i] = c}
    IN  IF at = {} THEN <<s>>
        ELSE <<SubSeq(s, 1, Min(at) - 1)>> \o SplitChar(SubSeq(s, Min(at) + 1, Len(s)), c)

\* Array.prototype.join.
RECURSIVE Join(_, _)
Join(parts, sep) ==
    IF parts = <<>> THEN <<>>
    ELSE IF Len(parts) = 1 THEN parts[1]
    ELSE parts[1] \o sep \o Join(Tail(parts), sep)

\* replace(/\s+/g, ' ')
RECURSIVE CollapseSpace(_)
CollapseSpace(s) ==
    IF s = <<>> THEN <<>>
    ELSE IF s[1] \in Whitespace
         THEN <<" ">> \o CollapseSpace(SubSeq(s, SkipSpace(s, 1), Len(s)))
         ELSE <<s[1]>> \o CollapseSpace(Tail(s))

(***************************************************************************)
(* detectPitchDeck.js                                                      *)
(*                                                                         *)
(* The score is counted in quarters: 4 stands for 1, 14 for the cutoff 3.5.*)
(***************************************************************************)
STRONG_KEYWORDS ==
    << Chars("pitch deck"), Chars("investor deck"), Chars("investor presentation"),
       Chars("fundraising deck"), Chars("fund raising deck"), Chars("fundraise deck") >>

FUNDING_KEYWORDS ==
    << Chars("seed round"), Chars("pre-seed"), Chars("series a"), Chars("series b"),
       Chars("series c"), Chars("series d"), Chars("series e"), Chars("bridge round"),
       Chars("angel round"), Chars("vc round"), Chars("funding round"),
       Chars("capital raise"), Chars("venture round") >>

INVESTOR_KEYWORDS ==
    << Chars("investor"), Chars("investment"), Chars("venture capital"), Chars("vc"),
       Chars("capital raise"), Chars("fundraising"), Chars("fund raising"),
       Chars("term sheet") >>

SECTION_KEYWORDS ==
    << Chars("problem"), Chars("solution"), Chars("market"), Chars("market size"),
       Chars("market opportunity"), Chars("product"), Chars("business model"),
       Chars("traction"), Chars("financials"), Chars("financial projections"),
       Chars("go-to-market"), Chars("go to market"), Chars("competitive landscape"),
       Chars("competition"), Chars("team"), Chars("roadmap"), Chars("use of funds"),
       Chars("funds use"), Chars("revenue"), Chars("milestones"), Chars("ask"),
       Chars("summary") >>

normalize(value) == toLowerCase(value)

collectMatches(text, keywords) == SelectSeq(keywords, LAMBDA keyword : includes(text, keyword))

\* COMPANY_REGEX: [A-Za-z0-9&'], the characters of a word of a name after
\* its capital.
CompanyWordChar == (Letter \ {Accented}) \cup Digit \cup {"&", "'"}

\* COMPANY_REGEX: the legal forms, in the order the expression tries them; a
\* form with \.? stands with its full stop before it stands without.
CompanySuffixes ==
    << Chars("Inc."), Chars("Inc"), Chars("Incorporated"), Chars("Corp."), Chars("Corp"),
       Chars("Corporation"), Chars("LLC"), Chars("L.L.C."), Chars("Ltd."), Chars("Ltd"),
       Chars("Limited"), Chars("Company"), Chars("Co."), Chars("Co") >>

\* The length of the legal form that matches at p, 0 when none does.
SuffixAt(s, p) ==
    LET hits == {k \in 1..Len(CompanySuffixes) :
                    /\ p + Len(CompanySuffixes[k]) - 1 <= Len(s)
                    /\ SubSeq(s, p, p + Len(CompanySuffixes[k]) - 1) = CompanySuffixes[k]}
    IN  IF hits = {} THEN 0 ELSE Len(CompanySuffixes[Min(hits)])

\* [A-Z][A-Za-z0-9&']+ at i: the index of the last character of the word, 0
\* when no word stands there.  The word is greedy, and what follows it in the
\* expression is whitespace, so it runs as far as its characters do.
WordEnd(s, i) ==
    IF i < 1 \/ i + 1 > Len(s) THEN 0
    ELSE IF s[i] \notin {UpperCase[k] : k \in 1..26} \/ s[i + 1] \notin CompanyWordChar THEN 0
    ELSE Min({j \in (i + 1)..Len(s) : j = Len(s) \/ s[j + 1] \notin CompanyWordChar})

NoMatch == [groupEnd |-> 0, matchEnd |-> 0]

\* The rest of a match whose words so far end at e: another word if the
\* match can be completed with it (the repetition is greedy), else the
\* whitespace and the legal form.
RECURSIVE MatchFrom(_, _)
MatchFrom(s, e) ==
    LET p == SkipSpace(s, e + 1)
        longer == IF p > e + 1 /\ WordEnd(s, p) # 0 THEN MatchFrom(s, WordEnd(s, p)) ELSE NoMatch
    IN  IF longer.matchEnd # 0 THEN longer
        ELSE IF p > e + 1 /\ SuffixAt(s, p) # 0
        THEN [groupEnd |-> e, matchEnd |-> p + SuffixAt(s, p) - 1]
        ELSE NoMatch

MatchStartingAt(s, i) == IF WordEnd(s, i) = 0 THEN NoMatch ELSE MatchFrom(s, WordEnd(s, i))

\* COMPANY_REGEX.exec(line) with the pattern's lastIndex at from: the match
\* found, and the lastIndex the call leaves (the end of the match, 0 when
\* there is none).
exec(line, from) ==
    LET starts == {i \in (from + 1)..Len(line) : MatchStartingAt(line, i).matchEnd # 0}
    IN  IF starts = {} THEN [found |-> FALSE, group |-> <<>>, lastIndex |-> 0]
        ELSE [found |-> TRUE,
              group |-> SubSeq(line, Min(starts), MatchStartingAt(line, Min(starts)).groupEnd),
              lastIndex |-> MatchStartingAt(line, Min(starts)).matchEnd]

\* consider(value): the trimmed value joins the candidates unless it is
\* shorter than three characters or there already.
consider(candidates, value) ==
    IF Len(trim(value)) < 3
       \/ \E k \in 1..Len(candidates) : toLowerCase(candidates[k]) = toLowerCase(trim(value))
    THEN candidates
    ELSE Append(candidates, trim(value))

\* A faulty loop: it looks for one match in a line and leaves it at that.
RECURSIVE ExecStepOnce(_, _, _, _)
ExecStepOnce(lines, k, match, candidates) ==
    IF k > Len(lines) THEN [candidates |-> candidates, lastIndex |-> match.lastIndex]
    ELSE IF k = Len(lines)
    THEN [candidates |-> IF match.found THEN consider(candidates, match.group) ELSE candidates,
          lastIndex |-> match.lastIndex]
    ELSE ExecStepOnce(lines, k + 1, exec(lines[k + 1], match.lastIndex),
                      IF match.found THEN consider(candidates, match.group) ELSE candidates)

\* The loops over the lines and over the matches in a line: match is what
\* exec has just returned for line k.  The result is the candidates and the
\* lastIndex the pattern is left with.
RECURSIVE ExecStep(_, _, _, _)
ExecStep(lines, k, match, candidates) ==
    IF k > Len(lines) THEN [candidates |-> candidates, lastIndex |-> match.lastIndex]
    ELSE IF match.found
    THEN ExecStep(lines, k, exec(lines[k], match.lastIndex), consider(candidates, match.group))
    ELSE IF k = Len(lines) THEN [candidates |-> candidates, lastIndex |-> match.lastIndex]
    ELSE ExecStep(lines, k + 1, exec(lines[k + 1], match.lastIndex), candidates)

\* /^(?:[A-Z][A-Z0-9&']+)$/.test(word)
UpperCaseWord(word) ==
    /\ Len(word) >= 2
    /\ word[1] \in {UpperCase[k] : k \in 1..26}
    /\ \A k \in 2..Len(word) : word[k] \in {UpperCase[j] : j \in 1..26} \cup Digit \cup {"&", "'"}

\* The second loop: the lines that are mostly words in capitals.
RECURSIVE CapitalLines(_, _)
CapitalLines(lines, candidates) ==
    IF lines = <<>> THEN candidates
    ELSE LET words == SplitRuns(trim(Head(lines)), Whitespace)
             capitals == Len(SelectSeq(words, UpperCaseWord))
         IN  IF Head(lines) = <<>> \/ Len(Head(lines)) > 120 \/ Len(words) < 2 \/ Len(words) > 8
                \/ 10 * capitals < 6 * Len(words)
             THEN CapitalLines(Tail(lines), candidates)
             ELSE CapitalLines(Tail(lines), consider(candidates, Join(words, <<" ">>)))

\* extractCompanyCandidates, called with the pattern's lastIndex at from.
WithCapitalLines(lines, scanned) ==
    [candidates |-> IF scanned.candidates = <<>> THEN CapitalLines(lines, <<>>)
                    ELSE scanned.candidates,
     lastIndex |-> scanned.lastIndex]

extractCompanyCandidates(lines, from) ==
    IF lines = <<>> THEN [candidates |-> <<>>, lastIndex |-> from]
    ELSE WithCapitalLines(lines, ExecStep(lines, 1, exec(lines[1], from), <<>>))

labelConfidence(score) ==
    IF score >= 24 THEN "high"
    ELSE IF score >= 16 THEN "medium"
    ELSE IF score >= 8 THEN "low"
    ELSE "none"

\* The score detectPitchDeck builds from the four lists of matches.
PitchDeckScore(strongMatches, fundingMatches, investorMatches, sectionMatches) ==
    (IF Len(strongMatches) > 0 THEN 16 ELSE 0)
    + (IF Len(fundingMatches) > 0 THEN Min({Len(fundingMatches), 2}) * 6 ELSE 0)
    + (IF Len(investorMatches) > 0 THEN Min({Len(investorMatches), 3}) * 3 ELSE 0)
    + (IF Len(sectionMatches) > 0
       THEN Min({Len(sectionMatches), 6}) * 2 + (IF Len(sectionMatches) >= 4 THEN 8 ELSE 0)
       ELSE 0)

\* A faulty verdict: the score has to reach 4.
PitchDeckVerdictFromFour(score, strongMatches, sectionMatches) ==
    score >= 16 \/ Len(strongMatches) > 0 \/ Len(sectionMatches) >= 4

\* const isPitchDeck = score >= 3.5 || strongMatches.length > 0 || hasMultipleSections
PitchDeckVerdict(score, strongMatches, sectionMatches) ==
    score >= 14 \/ Len(strongMatches) > 0 \/ Len(sectionMatches) >= 4

\* limited.split(/\r?\n/).map(line => line.trim()).filter(Boolean)
TextLines(limited) ==
    LET raw == SplitChar(limited, "\n")
        trimmed == [k \in 1..Len(raw) |-> trim(raw[k])]
    IN  SelectSeq(trimmed, LAMBDA line : line # <<>>)

\* /deck|presentation|investor|fund/i.test(line)
InterestingLine(line) ==
    \E w \in {Chars("deck"), Chars("presentation"), Chars("investor"), Chars("fund")} :
        includes(toLowerCase(line), w)

PitchDeckSummary(strongMatches, fundingMatches, investorMatches, sectionMatches) ==
    LET details ==
            (IF Len(strongMatches) > 0
             THEN << Chars("strong keywords (") \o Join(strongMatches, Chars(", ")) \o Chars(")") >>
             ELSE <<>>)
            \o (IF Len(fundingMatches) > 0
                THEN << Chars("funding references (") \o Join(fundingMatches, Chars(", ")) \o Chars(")") >>
                ELSE <<>>)
            \o (IF Len(sectionMatches) >= 3
                THEN << Chars("multiple deck sections (")
                        \o Join(slice(sectionMatches, 5), Chars(", ")) \o Chars(")") >>
                ELSE <<>>)
            \o (IF Len(investorMatches) > 0
                THEN << Chars("investor language (") \o Join(investorMatches, Chars(", ")) \o Chars(")") >>
                ELSE <<>>)
    IN  IF Len(details) > 0
        THEN Chars("Detected ") \o Join(details, Chars("; ")) \o Chars(".")
        ELSE Chars("No strong pitch deck indicators detected.")

\* extractCompanyCandidates(lines.slice(0, 40)) inside module.exports: it is
\* not reached for an empty text.
CompanyScan(text, maxChars, from) ==
    IF text = <<>> THEN [candidates |-> <<>>, lastIndex |-> from]
    ELSE extractCompanyCandidates(slice(TextLines(slice(text, maxChars)), 40), from)

\* module.exports of detectPitchDeck.js.  An empty text stands for a missing
\* one too; sampleTitle = <<>> stands for null.
detectPitchDeck(text, maxChars) ==
    IF text = <<>>
    THEN [isPitchDeck |-> FALSE, confidenceScore |-> 0, confidence |-> "none",
          summary |-> Chars("No text content was available for analysis."),
          matchedKeywords |-> <<>>, fundingMentions |-> <<>>, investorMentions |-> <<>>,
          sectionMentions |-> <<>>, sampleTitle |-> <<>>]
    ELSE LET limited == slice(text, maxChars)
             normalized == normalize(limited)
             strongMatches == collectMatches(normalized, STRONG_KEYWORDS)
             fundingMatches == collectMatches(normalized, FUNDING_KEYWORDS)
             investorMatches == collectMatches(normalized, INVESTOR_KEYWORDS)
             sectionMatches == collectMatches(normalized, SECTION_KEYWORDS)
             score == PitchDeckScore(strongMatches, fundingMatches, investorMatches, sectionMatches)
             lines == TextLines(limited)
             interesting == SelectSeq(lines, InterestingLine)
         IN  [isPitchDeck |-> PitchDeckVerdict(score, strongMatches, sectionMatches),
              confidenceScore |-> score,
              confidence |-> labelConfidence(score),
              summary |-> PitchDeckSummary(strongMatches, fundingMatches, investorMatches, sectionMatches),
              matchedKeywords |-> strongMatches,
              fundingMentions |-> fundingMatches,
              investorMentions |-> investorMatches,
              sectionMentions |-> sectionMatches,
              sampleTitle |-> IF interesting # <<>> THEN interesting[1]
                              ELSE IF lines # <<>> THEN lines[1] ELSE <<>>]

(***************************************************************************)
(* getNewName.js: the response resolver                                    *)
(***************************************************************************)
QUOTE_REGEX ==
    {Backtick, "\"", "'", LeftDoubleQuote, RightDoubleQuote, LeftSingleQuote, RightSingleQuote}

\* The alternatives of LABEL_REGEX, in the order the expression tries them.
LabelWords ==
    << Chars("filename"), Chars("file name"), Chars("suggested filename"),
       Chars("suggested file name"), Chars("name"), Chars("title") >>

LabelOperators == << Chars("is"), Chars("="), Chars(":") >>

\* replace(LABEL_REGEX, ''): the label, spaces, an optional operator, spaces,
\* all at the start of the segment and all greedy.
StripLabel(s) ==
    LET hits == {k \in 1..Len(LabelWords) : MatchAt(s, 1, LabelWords[k])}
    IN  IF hits = {} THEN s
        ELSE LET a == SkipSpace(s, Len(LabelWords[Min(hits)]) + 1)
                 ops == {k \in 1..Len(LabelOperators) : MatchAt(s, a, LabelOperators[k])}
                 b == IF ops = {} THEN a ELSE a + Len(LabelOperators[Min(ops)])
             IN  SubSeq(s, SkipSpace(s, b), Len(s))

\* INVALID_FILENAME_CHARS matches what is no letter, digit, space, _ or -.
ValidFilenameChar(c) == c \in Letter \cup Digit \cup Whitespace \cup {"_", "-"}

sanitizeSegment(segment) ==
    IF segment = <<>> THEN <<>>
    ELSE LET withoutQuotes == SelectSeq(segment, LAMBDA c : c \notin QUOTE_REGEX)
             withoutLabel == StripLabel(withoutQuotes)
             replaced == [i \in 1..Len(withoutLabel) |->
                            IF ValidFilenameChar(withoutLabel[i]) THEN withoutLabel[i] ELSE " "]
         IN  trim(CollapseSpace(replaced))

\* The loop of shortenToLimit: words are taken while the result fits.
RECURSIVE FitWords(_, _, _)
FitWords(words, candidate, limit) ==
    IF words = <<>> THEN candidate
    ELSE LET next == IF candidate # <<>> THEN candidate \o <<" ">> \o Head(words) ELSE Head(words)
         IN  IF Len(next) > limit THEN candidate ELSE FitWords(Tail(words), next, limit)

\* A faulty shortening: the text is cut at the limit, wherever that is.
shortenToLimitCut(text, limit) ==
    IF text = <<>> \/ limit = 0 \/ Len(text) <= limit THEN text
    ELSE slice(text, limit)

shortenToLimit(text, limit) ==
    IF text = <<>> \/ limit = 0 \/ Len(text) <= limit THEN text
    ELSE LET candidate == FitWords(SplitRuns(text, Whitespace), <<>>, limit)
         IN  IF candidate # <<>> THEN candidate ELSE slice(text, limit)

\* Where the capture ([^\n]+) starts when the spaces before it span lo..hi-1:
\* the spaces are greedy and are given back until a character that is no
\* line break follows. 0 when there is none.
GroupStart(s, lo, hi) ==
    LET ok == {r \in lo..hi : r <= Len(s) /\ s[r] # "\n"}
    IN  IF ok = {} THEN 0 ELSE Max(ok)

\* The length of the alternative of words that stands at i, 0 when none does.
WordAt(s, i, words) ==
    LET hits == {k \in 1..Len(words) : MatchAt(s, i, words[k])}
    IN  IF hits = {} THEN 0 ELSE Len(words[Min(hits)])

FilenameWords == << Chars("filename"), Chars("file name") >>
SuggestWords == << Chars("suggested"), Chars("proposed"), Chars("recommended") >>

\* /(?:filename|file name)\s*(?:is|=|:)\s*([^\n]+)/i tried at index i.
Pattern1At(s, i) ==
    LET w == WordAt(s, i, FilenameWords)
        a == SkipSpace(s, i + w)
        op == WordAt(s, a, LabelOperators)
    IN  IF w = 0 \/ op = 0 THEN 0
        ELSE GroupStart(s, a + op, SkipSpace(s, a + op))

\* /(?:suggested|proposed|recommended)\s*(?:filename|file name)\s*(?:is|=|:)?\s*([^\n]+)/i
Pattern2At(s, i) ==
    LET p == WordAt(s, i, SuggestWords)
        a == SkipSpace(s, i + p)
        w == WordAt(s, a, FilenameWords)
        b == SkipSpace(s, a + w)
        op == WordAt(s, b, LabelOperators)
        withOp == IF op = 0 THEN 0 ELSE GroupStart(s, b + op, SkipSpace(s, b + op))
    IN  IF p = 0 \/ w = 0 THEN 0
        ELSE IF withOp # 0 THEN withOp
        ELSE GroupStart(s, a + w, b)

\* /name\s*[:(fullwidth colon)]\s*([^\n]+)/i
Pattern3At(s, i) ==
    LET w == WordAt(s, i, << Chars("name") >>)
        a == SkipSpace(s, i + w)
    IN  IF w = 0 \/ a > Len(s) \/ s[a] \notin {":", FullwidthColon} THEN 0
        ELSE GroupStart(s, a + 1, SkipSpace(s, a + 1))

\* normalized.match(regex): the capture of the leftmost match, as a list of
\* no or one segment.
PatternSegment(s, At(_, _)) ==
    LET hits == {i \in 1..Len(s) : At(s, i) # 0}
    IN  IF hits = {} THEN <<>>
        ELSE LET g == At(s, Min(hits))
             IN  << SubSeq(s, g, LineEnd(s, g) - 1) >>

\* a || b for strings: b when a is empty.
Or(a, b) == IF a # <<>> THEN a ELSE b

\* The loop over the segments: the first one that survives sanitizing wins.
\* TrySegment is the body of the loop for a segment that cleaned is the
\* sanitized form of.
RECURSIVE FirstCandidate(_, _, _)
RECURSIVE TrySegment(_, _, _, _)
FirstCandidate(segments, seen, maxChars) ==
    IF segments = <<>> THEN <<>>
    ELSE TrySegment(sanitizeSegment(Head(segments)), Tail(segments), seen, maxChars)

TrySegment(cleaned, rest, seen, maxChars) ==
    IF cleaned = <<>> \/ toLowerCase(cleaned) \in seen
    THEN FirstCandidate(rest, seen, maxChars)
    ELSE Or(shortenToLimit(cleaned, maxChars),
            FirstCandidate(rest, seen \cup {toLowerCase(cleaned)}, maxChars))

\* modelResult with \r turned into \n, null characters dropped, trimmed.
NormalizeReply(text) ==
    trim(SelectSeq([i \in 1..Len(text) |-> IF text[i] = "\r" THEN "\n" ELSE text[i]],
                   LAMBDA c : c # NullChar))

\* A faulty order: the lines come before the captures of the patterns.
CandidateSegmentsLinesFirst(normalized) ==
    SplitChar(normalized, "\n")
        \o PatternSegment(normalized, Pattern1At)
        \o PatternSegment(normalized, Pattern2At)
        \o PatternSegment(normalized, Pattern3At)
        \o SplitRuns(normalized, {",", ";"})

\* The segments, in the order they are pushed.
CandidateSegments(normalized) ==
    PatternSegment(normalized, Pattern1At)
        \o PatternSegment(normalized, Pattern2At)
        \o PatternSegment(normalized, Pattern3At)
        \o SplitChar(normalized, "\n")
        \o SplitRuns(normalized, {",", ";"})

\* The part of extractFilenameCandidate after the reply is normalized.
CandidateOf(normalized, maxChars) ==
    IF normalized = <<>> THEN <<>>
    ELSE Or(FirstCandidate(CandidateSegments(normalized), {}, maxChars),
            shortenToLimit(sanitizeSegment(normalized), maxChars))

\* modelResult is a record: isString says whether the model call returned a
\* string, text is that string. A reply that is no string is null or undefined
\* (line 35 returns '' for it).
extractFilenameCandidate(modelResult, maxChars) ==
    IF ~modelResult.isString \/ modelResult.text = <<>> THEN <<>>
    ELSE CandidateOf(NormalizeReply(modelResult.text), maxChars)

\* applySeparator of trimToBoundary.
RECURSIVE FitParts(_, _, _, _)
FitParts(parts, result, separator, limit) ==
    IF parts = <<>> THEN result
    ELSE IF Head(parts) = <<>> THEN FitParts(Tail(parts), result, separator, limit)
    ELSE LET next == IF result # <<>> THEN result \o <<separator>> \o Head(parts) ELSE Head(parts)
         IN  IF Len(next) > limit THEN result ELSE FitParts(Tail(parts), next, separator, limit)

applySeparator(text, separator, limit) ==
    IF \A i \in 1..Len(text) : text[i] # separator THEN <<>>
    ELSE FitParts(SplitChar(text, separator), <<>>, separator, limit)

\* replace(/[-_]+$/g, '')
StripTrailingSeparators(s) ==
    LET keep == {i \in 1..Len(s) : s[i] \notin {"-", "_"}}
    IN  IF keep = {} THEN <<>> ELSE SubSeq(s, 1, Max(keep))

trimToBoundary(text, limit) ==
    IF text = <<>> \/ limit = 0 \/ Len(text) <= limit THEN text
    ELSE LET byHyphen == applySeparator(text, "-", limit)
             byUnderscore == applySeparator(text, "_", limit)
         IN  IF byHyphen # <<>> THEN byHyphen
             ELSE IF byUnderscore # <<>> THEN byUnderscore
             ELSE StripTrailingSeparators(slice(text, limit))

\* limit is safeCharLimit, a whole number.
enforceLengthLimit(value, limit) ==
    IF value = <<>> THEN value
    ELSE IF limit <= 0 THEN value
    ELSE IF Len(value) <= limit THEN value
    ELSE LET trimmed == trimToBoundary(value, limit)
         IN  IF trimmed # <<>> THEN trimmed ELSE slice(value, limit)

\* String(n) for a whole number n >= 0.
RECURSIVE ToDecimal(_)
ToDecimal(n) ==
    LET d == Chars("0123456789")[(n % 10) + 1]
    IN  IF n < 10 THEN <<d>> ELSE ToDecimal(n \div 10) \o <<d>>

formatDateForPrompt(value) == slice(value, 10)

\* fileMetadata is a record; present = FALSE stands for null, an empty
\* createdAt, modifiedAt or sizeLabel for a missing one, size -1 for a size
\* that is no finite number.
buildMetadataHint(fileMetadata, metadataHints) ==
    IF ~metadataHints \/ ~fileMetadata.present
    THEN [lines |-> <<>>, fallbackDate |-> [type |-> "none", value |-> <<>>]]
    ELSE LET created == formatDateForPrompt(fileMetadata.createdAt)
             modified == formatDateForPrompt(fileMetadata.modifiedAt)
             lines ==
                 (IF created # <<>> THEN << Chars("Created on ") \o created >> ELSE <<>>)
                 \o (IF modified # <<>> THEN << Chars("Last modified on ") \o modified >> ELSE <<>>)
                 \o (IF fileMetadata.sizeLabel # <<>>
                     THEN << Chars("Approximate size ") \o fileMetadata.sizeLabel >>
                     ELSE IF fileMetadata.size >= 0
                     THEN << Chars("File size ") \o ToDecimal(fileMetadata.size) \o Chars(" bytes") >>
                     ELSE <<>>)
                 \o (IF Len(fileMetadata.tags) > 0
                     THEN << Chars("Finder tags: ") \o Join(fileMetadata.tags, Chars(", ")) >>
                     ELSE <<>>)
         IN  [lines |-> lines,
              fallbackDate |->
                  IF created # <<>> THEN [type |-> "created", value |-> created]
                  ELSE IF modified # <<>> THEN [type |-> "modified", value |-> modified]
                  ELSE [type |-> "none", value |-> <<>>]]

\* /(19|20)\d{2}/.test(base)
HasYear(base) ==
    \E i \in 1..(Len(base) - 3) :
        /\ SubSeq(base, i, i + 1) \in {Chars("19"), Chars("20")}
        /\ base[i + 2] \in Digit
        /\ base[i + 3] \in Digit

appendFallbackDate(base, fallbackDate, limit) ==
    IF base = <<>> THEN [text |-> base, applied |-> FALSE]
    ELSE IF fallbackDate.type = "none" \/ fallbackDate.value = <<>>
    THEN [text |-> base, applied |-> FALSE]
    ELSE IF HasYear(base) THEN [text |-> base, applied |-> FALSE]
    ELSE LET trimmedBase == trim(base)
             dateFragment == fallbackDate.value
             separator == IF trimmedBase # <<>> THEN <<" ">> ELSE <<>>
             appended == trimmedBase \o separator \o dateFragment
             room == limit - Len(dateFragment) - Len(separator)
             maxBaseLength == IF room > 0 THEN room ELSE 0
             shortenedBase == IF maxBaseLength > 0 THEN shortenToLimit(trimmedBase, maxBaseLength) ELSE <<>>
             safeSeparator == IF shortenedBase # <<>> THEN <<" ">> ELSE <<>>
         IN  IF limit = 0 \/ Len(appended) <= limit
             THEN [text |-> appended, applied |-> TRUE]
             ELSE [text |-> shortenedBase \o safeSeparator \o dateFragment, applied |-> TRUE]

\* The loop of appendFinderTags: sanitized tags, the later duplicates dropped.
\* KeepTag is the body of the loop for a tag that cleaned is the sanitized
\* form of.
RECURSIVE SanitizedTags(_, _)
RECURSIVE KeepTag(_, _, _)
SanitizedTags(tags, seen) ==
    IF tags = <<>> THEN <<>>
    ELSE KeepTag(sanitizeSegment(Head(tags)), Tail(tags), seen)

KeepTag(cleaned, rest, seen) ==
    IF cleaned = <<>> \/ toLowerCase(cleaned) \in seen
    THEN SanitizedTags(rest, seen)
    ELSE <<cleaned>> \o SanitizedTags(rest, seen \cup {toLowerCase(cleaned)})

\* The part of appendFinderTags after the loop.
JoinTags(base, tags, sanitized, trimmedBase) ==
    IF Len(tags) = 0 \/ Len(sanitized) = 0 THEN [text |-> base, applied |-> <<>>]
    ELSE [text |-> IF trimmedBase # <<>>
                   THEN trimmedBase \o Chars(" - ") \o Join(sanitized, Chars(" - "))
                   ELSE Join(sanitized, Chars(" - ")),
          applied |-> sanitized]

appendFinderTags(base, tags) == JoinTags(base, tags, SanitizedTags(tags, {}), trim(base))

\* changeCase: the words of the text, which spaces, hyphens and underscores
\* separate, lower-cased and joined as the case style says.
CaseWords(text) ==
    SelectSeq(SplitRuns(toLowerCase(text), Whitespace \cup {"-", "_"}), LAMBDA w : w # <<>>)

Capitalize(w) == IF w = <<>> THEN w ELSE <<ToUpperChar(w[1])>> \o Tail(w)

changeCase(text, case) ==
    LET words == CaseWords(text)
    IN  CASE case = "kebab" -> Join(words, <<"-">>)
          [] case = "snake" -> Join(words, <<"_">>)
          [] case = "camel" ->
                IF words = <<>> THEN <<>>
                ELSE Join(<<words[1]>> \o [i \in 1..(Len(words) - 1) |-> Capitalize(words[i + 1])], <<>>)
          [] OTHER -> text

(***************************************************************************)
(* getNewName.js: the prompt budget                                        *)
(*                                                                         *)
(* A long text (the content, the video summary, the custom instructions)   *)
(* is a sequence of runs [c |-> character, n |-> how many], no run empty   *)
(* and no two neighbours of the same character.  Offsets count from 0, as  *)
(* in the source.                                                          *)
(***************************************************************************)
DEFAULT_MAX_CONTENT_CHARS == 8000
DEFAULT_MAX_PROMPT_CHARS == 12000

RECURSIVE Sum(_)
Sum(ns) == IF ns = <<>> THEN 0 ELSE Head(ns) + Sum(Tail(ns))

RunLength(t) == Sum([k \in 1..Len(t) |-> t[k].n])

\* The offset just past run k.
RunEnd(t, k) == Sum([j \in 1..k |-> t[j].n])

\* text.slice(0, limit)
RECURSIVE RunSlice(_, _)
RunSlice(t, limit) ==
    IF t = <<>> \/ limit <= 0 THEN <<>>
    ELSE IF Head(t).n >= limit THEN << [c |-> Head(t).c, n |-> limit] >>
    ELSE <<Head(t)>> \o RunSlice(Tail(t), limit - Head(t).n)

RunTrim(t) ==
    LET keep == {k \in 1..Len(t) : t[k].c \notin Whitespace}
    IN  IF keep = {} THEN <<>> ELSE SubSeq(t, Min(keep), Max(keep))

\* slice.lastIndexOf('\n'), -1 when there is none.
RunLastIndexOf(t, c) ==
    LET at == {k \in 1..Len(t) : t[k].c = c}
    IN  IF at = {} THEN -1 ELSE RunEnd(t, Max(at)) - 1

\* slice.lastIndexOf(c + ' ')
RunLastBreak(t, c) ==
    LET at == {k \in 1..(Len(t) - 1) : t[k].c = c /\ t[k + 1].c = " "}
    IN  IF at = {} THEN -1 ELSE RunEnd(t, Max(at)) - 1

softTruncate(text, limit) ==
    IF text = <<>> \/ limit <= 0 THEN <<>>
    ELSE IF RunLength(text) <= limit THEN text
    ELSE LET cut == RunSlice(text, limit)
             lastNewline == RunLastIndexOf(cut, "\n")
             lastSentenceBreak ==
                 Max({RunLastBreak(cut, "."), RunLastBreak(cut, "!"), RunLastBreak(cut, "?")})
         IN  IF lastNewline >= (limit * 6) \div 10
             THEN RunTrim(RunSlice(cut, lastNewline))
             ELSE IF lastSentenceBreak >= limit \div 2
             THEN RunTrim(RunSlice(cut, lastSentenceBreak + 1))
             ELSE RunTrim(cut)

getFocusGuidance(focus) ==
    CASE focus = "company" ->
            "Lead with the company or organization responsible for the document before other elements."
      [] focus = "people" ->
            "Lead with the key people, teams, or committees mentioned before any other elements."
      [] focus = "project" ->
            "Lead with the project, initiative, or deliverable name before the other elements."
      [] OTHER ->
            "Lead with the most relevant entity (company, project, team, or person) that anchors the document."

\* `${chars}`: chars is [finite |-> whether it is a finite number,
\* halves |-> twice its value], so that a limit may be a half.
RenderNumber(chars) ==
    IF ~chars.finite THEN Chars("undefined")
    ELSE LET h == IF chars.halves < 0 THEN -chars.halves ELSE chars.halves
             sign == IF chars.halves < 0 THEN <<"-">> ELSE <<>>
         IN  sign \o ToDecimal(h \div 2) \o (IF h % 2 = 1 THEN Chars(".5") ELSE <<>>)

\* The lengths of the lines composePromptLines returns, in order.  p holds
\* the named parameters; a parameter that is a text holds its runs.
composePromptLines(p) ==
    LET det == p.pitchDeckDetection
        template ==
            IF p.pitchDeckMode
            THEN << Len("You rename startup fundraising pitch decks. Your response must either be a structured filename or the single word SKIP."),
                    Len("If the document is not a startup pitch deck, respond with SKIP (uppercase) and no additional text."),
                    Len("When it is a pitch deck, output a filename following this structure: Startup - [Company or team] - [Funding round or investor focus] - Pitch Deck - [Version or iteration] - [Best available date in YYYY-MM-DD]."),
                    Len("Use only information that is clearly supported by the content or metadata. Prefer concise funding descriptors (Seed, Series A, Bridge, etc.) and realistic version labels (v1, Draft, Update)."),
                    Len("If a segment is unknown, use a brief factual placeholder such as Unknown or Draft rather than inventing details."),
                    Len(getFocusGuidance(p.promptFocus)) >>
            ELSE << Len("You rename documents using descriptive structured filenames."),
                    Len("Follow this order: [Primary subject] - [Purpose or title] - [Document type] - [Version identifier] - [Best available date in YYYY-MM-DD]."),
                    Len(getFocusGuidance(p.promptFocus)),
                    Len("Use real wording from the document or metadata and omit any segment that is not clearly supported."),
                    Len("Include authentic revision numbers or version labels (e.g., v1, draft, executed) when they appear."),
                    Len("Prefer ISO-style dates (YYYY-MM-DD). If only month or year is known, use the most precise available format."),
                    Len("Do not invent information, do not include the file extension, and avoid extra punctuation beyond hyphens or spaces.") >>
        directives ==
            << 0,
               Len("Case style: ") + Len(p.case),
               Len("Maximum characters: ") + Len(RenderNumber(p.chars)),
               Len("Language: ") + Len(p.language),
               Len("Return only the filename text."),
               0 >>
        hint ==
            IF p.useFilenameHint /\ p.originalFileName # <<>>
            THEN << 0, Len("Current filename for context: ") + Len(p.originalFileName) >>
            ELSE <<>>
        metadata ==
            IF Len(p.metadataHintLines) > 0
            THEN << 0, Len("File metadata hints:") >>
                 \o [k \in 1..Len(p.metadataHintLines) |-> Len("- ") + Len(p.metadataHintLines[k])]
                 \o (IF p.metadataFallback.type # "none"
                     THEN << Len("If the content lacks a clear date, fall back to the ")
                             + Len(p.metadataFallback.type) + Len(" date above.") >>
                     ELSE <<>>)
            ELSE <<>>
        heuristics ==
            IF p.pitchDeckMode /\ det.present
            THEN (IF det.summary # <<>>
                  THEN << 0, Len("Pitch deck heuristics: ") + Len(det.summary) >> ELSE <<>>)
                 \o (IF Len(det.companyCandidates) > 0
                     THEN << 0, Len("Potential company names:") >>
                          \o [k \in 1..Len(slice(det.companyCandidates, 5)) |->
                                Len("- ") + Len(det.companyCandidates[k])]
                     ELSE <<>>)
                 \o (IF Len(det.fundingMentions) > 0
                     THEN << 0, Len("Funding round references detected:") >>
                          \o [k \in 1..Len(slice(det.fundingMentions, 5)) |->
                                Len("- ") + Len(det.fundingMentions[k])]
                     ELSE <<>>)
                 \o (IF det.sampleTitle # <<>>
                     THEN << 0, Len("Representative slide or heading: ") + Len(det.sampleTitle) >>
                     ELSE <<>>)
            ELSE <<>>
        video ==
            IF p.videoPrompt # <<>>
            THEN << 0, Len("Video summary:"), RunLength(p.videoPrompt) >> ELSE <<>>
        content ==
            IF p.contentSnippet = <<>> THEN <<>>
            ELSE IF p.contentTruncated
            THEN << 0,
                    Len("Content preview (first ") + Len(ToDecimal(RunLength(p.contentSnippet)))
                        + Len(" of ") + Len(ToDecimal(p.contentOriginalLength)) + Len(" characters):"),
                    RunLength(p.contentSnippet) >>
            ELSE << 0, Len("Content:"), RunLength(p.contentSnippet) >>
        custom ==
            IF p.customPrompt # <<>>
            THEN << 0, Len("Custom instructions:"), RunLength(p.customPrompt) >> ELSE <<>>
    IN  template \o directives \o hint \o metadata \o heuristics \o video \o content \o custom

\* promptLines.join('\n').length
JoinedLength(lines) == Sum(lines) + Len(lines) - 1

\* The two ceilings of the budget.
MaxContentChars(o) ==
    IF o.maxPromptContentChars.finite
    THEN Max({o.maxPromptContentChars.value, 0})
    ELSE DEFAULT_MAX_CONTENT_CHARS

MaxPromptChars(o) ==
    IF o.maxPromptChars.finite
    THEN Max({o.maxPromptChars.value, 2000})
    ELSE DEFAULT_MAX_PROMPT_CHARS

\* assemblePrompt of module.exports.
assemblePrompt(o, metadataInfo, contentSnippet, contentTruncated) ==
    composePromptLines(
        [case |-> o.case, chars |-> o.chars, language |-> o.language,
         videoPrompt |-> o.videoPrompt, useFilenameHint |-> o.useFilenameHint,
         originalFileName |-> o.originalFileName,
         metadataHintLines |-> metadataInfo.lines,
         metadataFallback |-> metadataInfo.fallbackDate,
         contentSnippet |-> contentSnippet,
         contentOriginalLength |-> RunLength(o.content),
         contentTruncated |-> contentTruncated,
         customPrompt |-> o.customPrompt, promptFocus |-> o.promptFocus,
         pitchDeckMode |-> o.pitchDeckMode,
         pitchDeckDetection |-> o.pitchDeckDetection])

\* The content is over its ceiling and is cut to it.
FirstCut(o) == o.content # <<>> /\ RunLength(o.content) > MaxContentChars(o)

\* A faulty end of the budgeting: the prompt is not cut to its ceiling.
BudgetResultUncut(o, metadataInfo, snippet, secondCut, length) ==
    [promptLength |-> length,
     assembledLength |-> length,
     promptTrimmed |-> FALSE,
     contentSnippet |-> snippet,
     contentTruncated |-> FirstCut(o) \/ secondCut,
     secondCut |-> secondCut,
     maxPromptChars |-> MaxPromptChars(o),
     maxContentChars |-> MaxContentChars(o),
     metadataInfo |-> metadataInfo]

\* The end of the budgeting: the prompt is cut to its ceiling when it is
\* still over it.
BudgetResult(o, metadataInfo, snippet, secondCut, length) ==
    [promptLength |-> IF length > MaxPromptChars(o) THEN MaxPromptChars(o) ELSE length,
     assembledLength |-> length,
     promptTrimmed |-> length > MaxPromptChars(o),
     contentSnippet |-> snippet,
     contentTruncated |-> FirstCut(o) \/ secondCut,
     secondCut |-> secondCut,
     maxPromptChars |-> MaxPromptChars(o),
     maxContentChars |-> MaxContentChars(o),
     metadataInfo |-> metadataInfo]

\* A faulty budgeting: the snippet is not cut a second time.
ReassembledSkipped(o, metadataInfo, snippet, length, shortened) ==
    BudgetResult(o, metadataInfo, snippet, FALSE, length)

\* The snippet is cut again when it can be; shortened is what it is cut to.
Reassembled(o, metadataInfo, snippet, length, shortened) ==
    IF length > MaxPromptChars(o) /\ snippet # <<>> /\ shortened # snippet
    THEN BudgetResult(o, metadataInfo, shortened, TRUE,
                      JoinedLength(assemblePrompt(o, metadataInfo, shortened, TRUE)))
    ELSE BudgetResult(o, metadataInfo, snippet, FALSE, length)

\* The prompt with the snippet of the first cut is length long.
Overflow(o, metadataInfo, snippet, length) ==
    LET overflow == length - MaxPromptChars(o)
        targetLength == Max({0, RunLength(snippet) - overflow - 200})
    IN  Reassembled(o, metadataInfo, snippet, length,
                    IF targetLength > 0 THEN softTruncate(snippet, targetLength) ELSE <<>>)

Assembled(o, metadataInfo, snippet) ==
    Overflow(o, metadataInfo, snippet,
             JoinedLength(assemblePrompt(o, metadataInfo, snippet, FirstCut(o))))

\* The budgeting of module.exports: the content snippet is cut to the content
\* ceiling, cut again by the overflow of the assembled prompt, and the prompt
\* is cut to its ceiling last.  o is the option bag.
PromptBudget(o) ==
    Assembled(o, buildMetadataHint(o.fileMetadata, o.metadataHints),
              IF FirstCut(o) THEN softTruncate(o.content, MaxContentChars(o)) ELSE o.content)

(***************************************************************************)
(* getNewName.js: module.exports                                           *)
(***************************************************************************)
safeCharLimit(chars) ==
    IF chars.finite /\ chars.halves > 0 THEN chars.halves \div 2 ELSE 20

\* A faulty ceiling: the allowance is a quarter of the limit, however small.
candidateLimitQuarter(safeLimit) ==
    IF safeLimit <= 0 THEN 120
    ELSE safeLimit + safeLimit \div 4

candidateLimit(safeLimit) ==
    IF safeLimit <= 0 THEN 120
    ELSE safeLimit + Max({20, safeLimit \div 4})

AsciiWordChar ==
    {UpperCase[i] : i \in 1..26} \cup {LowerCase[i] : i \in 1..26} \cup Digit \cup {"_"}

\* normalizedReply.replace(/\s+/g, ' ').trim()
SkipCheck(modelResult) ==
    IF modelResult.isString THEN trim(CollapseSpace(trim(modelResult.text))) ELSE <<>>

\* A faulty skip test: the word boundary after skip is not asked for.
IsSkipReplyByPrefix(skipCheck) ==
    skipCheck = <<>> \/ MatchAt(skipCheck, 1, Chars("skip"))

\* !skipCheck || /^skip\b/i.test(skipCheck)
IsSkipReply(skipCheck) ==
    \/ skipCheck = <<>>
    \/ /\ MatchAt(skipCheck, 1, Chars("skip"))
       /\ Len(skipCheck) = 4 \/ skipCheck[5] \notin AsciiWordChar

NoName == <<>>

\* The context of an attempt; finalName = NoName stands for null.
NameContext(o, budget, fields) ==
    [caseStyle |-> o.case,
     charLimit |-> safeCharLimit(o.chars),
     contentTruncated |-> budget.contentTruncated,
     contentSnippetLength |-> RunLength(budget.contentSnippet),
     promptLength |-> budget.promptLength,
     promptTrimmed |-> budget.promptTrimmed,
     maxPromptChars |-> budget.maxPromptChars,
     maxContentChars |-> budget.maxContentChars,
     pitchDeckMode |-> o.pitchDeckMode,
     candidate |-> fields.candidate,
     usedFallback |-> fields.usedFallback,
     truncated |-> fields.truncated,
     finalName |-> fields.finalName,
     metadataFallbackApplied |-> fields.metadataFallbackApplied,
     finderTagsApplied |-> fields.finderTagsApplied,
     pitchDeckSkip |-> fields.pitchDeckSkip]

NoContext ==
    [caseStyle |-> "", charLimit |-> 0, contentTruncated |-> FALSE,
     contentSnippetLength |-> 0, promptLength |-> 0, promptTrimmed |-> FALSE,
     maxPromptChars |-> 0, maxContentChars |-> 0, pitchDeckMode |-> FALSE,
     candidate |-> <<>>, usedFallback |-> FALSE, truncated |-> FALSE,
     finalName |-> NoName, metadataFallbackApplied |-> FALSE,
     finderTagsApplied |-> <<>>, pitchDeckSkip |-> FALSE]

\* A faulty end: the fallback of the second resort is not flagged.
NameResultSecondUnflagged(o, budget, extractedCandidate, tagged, dated, afterCase, filename, useSecond) ==
    IF filename = <<>>
    THEN [returned |-> "null", filename |-> NoName, skipped |-> FALSE, context |-> NoContext]
    ELSE [returned |-> "object", filename |-> filename, skipped |-> FALSE,
          context |-> NameContext(o, budget,
              [candidate |-> dated.text,
               usedFallback |-> extractedCandidate = <<>>,
               truncated |-> afterCase # <<>> /\ afterCase # filename,
               finalName |-> filename,
               metadataFallbackApplied |-> dated.applied,
               finderTagsApplied |-> tagged.applied,
               pitchDeckSkip |-> FALSE])]

\* The end of module.exports: the filename that is left, if one is.
\* useSecond says that it is the fallback phrase of the second resort.
NameResult(o, budget, extractedCandidate, tagged, dated, afterCase, filename, useSecond) ==
    IF filename = <<>>
    THEN [returned |-> "null", filename |-> NoName, skipped |-> FALSE, context |-> NoContext]
    ELSE [returned |-> "object", filename |-> filename, skipped |-> FALSE,
          context |-> NameContext(o, budget,
              [candidate |-> dated.text,
               usedFallback |-> extractedCandidate = <<>> \/ useSecond,
               truncated |-> IF useSecond
                             THEN Len(filename) < Len(changeCase(Chars("renamed file"), o.case))
                             ELSE afterCase # <<>> /\ afterCase # filename,
               finalName |-> filename,
               metadataFallbackApplied |-> dated.applied,
               finderTagsApplied |-> tagged.applied,
               pitchDeckSkip |-> FALSE])]

\* The length limit: the name is cut to it, and the fallback phrase is put
\* in its place when nothing is left of it.
Enforced(o, budget, extractedCandidate, tagged, dated, afterCase, enforced, enforcedFallback) ==
    IF enforced = <<>> /\ enforcedFallback # <<>>
    THEN NameResult(o, budget, extractedCandidate, tagged, dated, afterCase, enforcedFallback, TRUE)
    ELSE NameResult(o, budget, extractedCandidate, tagged, dated, afterCase, enforced, FALSE)

Cased(o, budget, extractedCandidate, tagged, dated, afterCase) ==
    Enforced(o, budget, extractedCandidate, tagged, dated, afterCase,
             enforceLengthLimit(afterCase, safeCharLimit(o.chars)),
             enforceLengthLimit(changeCase(Chars("renamed file"), o.case), safeCharLimit(o.chars)))

Dated(o, budget, extractedCandidate, tagged, dated) ==
    Cased(o, budget, extractedCandidate, tagged, dated, changeCase(dated.text, o.case))

Tagged(o, budget, extractedCandidate, tagged) ==
    Dated(o, budget, extractedCandidate, tagged,
          appendFallbackDate(tagged.text, budget.metadataInfo.fallbackDate,
                             candidateLimit(safeCharLimit(o.chars))))

\* The candidate of the reply, or the fallback phrase, with the Finder tags.
Extracted(o, budget, extractedCandidate) ==
    Tagged(o, budget, extractedCandidate,
           IF o.appendTags /\ Len(o.macTags) > 0
           THEN appendFinderTags(Or(extractedCandidate, Chars("renamed file")), o.macTags)
           ELSE [text |-> Or(extractedCandidate, Chars("renamed file")), applied |-> <<>>])

\* The reply of the model is there: the skip of pitch-deck mode, or a name.
Replied(o, budget, modelResult) ==
    IF o.pitchDeckMode /\ IsSkipReply(SkipCheck(modelResult))
    THEN [returned |-> "object", filename |-> NoName, skipped |-> TRUE,
          context |-> NameContext(o, budget,
              [candidate |-> <<>>, usedFallback |-> FALSE, truncated |-> FALSE,
               finalName |-> NoName, metadataFallbackApplied |-> FALSE,
               finderTagsApplied |-> <<>>, pitchDeckSkip |-> TRUE])]
    ELSE Extracted(o, budget,
                   extractFilenameCandidate(modelResult, candidateLimit(safeCharLimit(o.chars))))

\* What module.exports resolves to.  returned is "undefined" when the catch
\* block ran, "null" when no filename was left, else "object"; filename =
\* NoName stands for a null filename.  modelResult is what getModelResponse
\* did: it threw, or it returned a string, or something that is no string.
getNewName(o, modelResult) ==
    IF modelResult.threw
    THEN [returned |-> "undefined", filename |-> NoName, skipped |-> FALSE, context |-> NoContext]
    ELSE Replied(o, PromptBudget(o), modelResult)

(***************************************************************************)
(* processFile.js: paths, the shell quoting and the confirmation gate      *)
(***************************************************************************)
\* process.cwd()
Cwd == Chars("/w")

IsAbsolute(p) == p # <<>> /\ p[1] = "/"

basename(p) == SubSeq(p, lastIndexOf(p, "/") + 1, Len(p))

dirname(p) ==
    LET i == lastIndexOf(p, "/")
    IN  IF i = 0 THEN Chars(".") ELSE IF i = 1 THEN Chars("/") ELSE SubSeq(p, 1, i - 1)

extname(p) ==
    LET b == basename(p)
        i == lastIndexOf(b, ".")
    IN  IF i <= 1 THEN <<>> ELSE SubSeq(b, i, Len(b))

\* path.resolve of one path, and of a directory and a name in it.
resolve(p) ==
    IF IsAbsolute(p) THEN p
    ELSE IF p = Chars(".") \/ p = <<>> THEN Cwd
    ELSE Cwd \o <<"/">> \o p

resolveIn(dir, name) ==
    IF resolve(dir) = Chars("/") THEN <<"/">> \o name ELSE resolve(dir) \o <<"/">> \o name

\* path.join of a directory and a name.
joinPath(dir, name) ==
    IF dir = Chars(".") \/ dir = <<>> THEN name
    ELSE IF dir = Chars("/") THEN <<"/">> \o name
    ELSE dir \o <<"/">> \o name

\* path.relative(from, to) for a path to at or below from.
relative(from, to) ==
    LET a == resolve(from)
        b == resolve(to)
    IN  IF a = b THEN <<>>
        ELSE IF Len(b) > Len(a) + 1 /\ SubSeq(b, 1, Len(a) + 1) = a \o <<"/">>
        THEN SubSeq(b, Len(a) + 2, Len(b))
        ELSE b

\* A faulty quoting: the dollar sign is left as it is.
ShellEscapedWithoutDollar == {"\"", "\\", Backtick}

\* The characters quoteForShell puts a backslash before.
ShellEscaped == {"\"", "\\", Backtick, "$"}

RECURSIVE EscapeWith(_, _)
EscapeWith(value, escaped) ==
    IF value = <<>> THEN <<>>
    ELSE (IF Head(value) \in escaped THEN <<"\\", Head(value)>> ELSE <<Head(value)>>)
         \o EscapeWith(Tail(value), escaped)

\* A faulty quoting: the value is wrapped and nothing in it is escaped.
quoteForShellUnescaped(value) == <<"\"">> \o value \o <<"\"">>

quoteForShell(value) == <<"\"">> \o EscapeWith(value, ShellEscaped) \o <<"\"">>

\* A faulty gate: the answer is compared as it was typed.
promptForConfirmationUntrimmed(forceChange, isTTY, answer, nonInteractiveMessage) ==
    IF forceChange
    THEN [value |-> TRUE, readTTY |-> FALSE, asked |-> FALSE, printed |-> FALSE]
    ELSE IF ~isTTY
    THEN [value |-> FALSE, readTTY |-> TRUE, asked |-> FALSE, printed |-> nonInteractiveMessage]
    ELSE [value |-> answer = Chars("y") \/ answer = Chars("yes"),
          readTTY |-> TRUE, asked |-> TRUE, printed |-> FALSE]

\* promptForConfirmation.  answer is what the user would type.  Besides the
\* value it resolves to, the result says what the function touched.
promptForConfirmation(forceChange, isTTY, answer, nonInteractiveMessage) ==
    IF forceChange
    THEN [value |-> TRUE, readTTY |-> FALSE, asked |-> FALSE, printed |-> FALSE]
    ELSE IF ~isTTY
    THEN [value |-> FALSE, readTTY |-> TRUE, asked |-> FALSE, printed |-> nonInteractiveMessage]
    ELSE LET normalized == toLowerCase(trim(answer))
         IN  [value |-> normalized = Chars("y") \/ normalized = Chars("yes"),
              readTTY |-> TRUE, asked |-> TRUE, printed |-> FALSE]

(***************************************************************************)
(* The shell that runs a logged revert command, and mv                     *)
(***************************************************************************)
\* Inside double quotes a backslash quotes these and is kept before the rest.
ShellQuotable == {"$", Backtick, "\"", "\\"}

\* What makes a $ inside double quotes start an expansion.
ExpansionStart == AsciiWordChar \cup {"{", "(", "$", "?", "!", "#", "@", "*", "-"}

\* The words of a command line from index i on: word is the word being read
\* (open says that one is), quoted whether i is inside double quotes.  An
\* unquoted $name expands to nothing (the variable is not set) and a command
\* substitution to nothing too.
RECURSIVE ShellWords(_, _, _, _, _)
ShellWords(cmd, i, word, open, quoted) ==
    IF i > Len(cmd) THEN (IF open THEN <<word>> ELSE <<>>)
    ELSE LET c == cmd[i]
             next == IF i < Len(cmd) THEN cmd[i + 1] ELSE ""
             nameEnd == Min({j \in (i + 1)..(Len(cmd) + 1) :
                                j = Len(cmd) + 1 \/ cmd[j] \notin AsciiWordChar})
             tickEnd == Min({j \in (i + 1)..(Len(cmd) + 1) :
                                j = Len(cmd) + 1 \/ cmd[j] = Backtick})
         IN  IF c = "\\" /\ i < Len(cmd) /\ (~quoted \/ next \in ShellQuotable)
             THEN ShellWords(cmd, i + 2, word \o <<next>>, TRUE, quoted)
             ELSE IF c = "\""
             THEN ShellWords(cmd, i + 1, word, TRUE, ~quoted)
             ELSE IF c = "$" /\ next \in ExpansionStart
             THEN ShellWords(cmd, IF nameEnd = i + 1 THEN i + 2 ELSE nameEnd, word, open, quoted)
             ELSE IF c = Backtick
             THEN ShellWords(cmd, tickEnd + 1, word, open, quoted)
             ELSE IF ~quoted /\ c \in Whitespace
             THEN (IF open THEN <<word>> ELSE <<>>) \o ShellWords(cmd, i + 1, <<>>, FALSE, FALSE)
             ELSE ShellWords(cmd, i + 1, word \o <<c>>, TRUE, quoted)

\* Running a command line on the files: only mv of one existing file does
\* anything.  The result is the files afterwards.
ShellRun(cmd, files) ==
    LET words == ShellWords(cmd, 1, <<>>, FALSE, FALSE)
    IN  IF Len(words) = 3 /\ words[1] = Chars("mv") /\ resolve(words[2]) \in files
        THEN (files \ {resolve(words[2])}) \cup {resolve(words[3])}
        ELSE files

(***************************************************************************)
(* processFile.js: the per-file pipeline                                   *)
(***************************************************************************)
Files == {1, 2}

\* The collaborators that tell the kinds of file apart, by extension.
isImage(ext) == ext \in {Chars(".png"), Chars(".jpg")}
isVideo(ext) == ext \in {Chars(".mp4"), Chars(".mov")}
isProcessableFile(filePath) ==
    LET ext == toLowerCase(extname(filePath))
    IN  isImage(ext) \/ isVideo(ext) \/ ext \in {Chars(".txt"), Chars(".pdf")}

\* framesOutputDir of file f: `/tmp/ai-renamer/${uuidv4()}`, one per call.
FramesDir(f) == <<"/tmp/ai-renamer/", f>>
NoDir == <<>>

NoMetadata ==
    [present |-> FALSE, createdAt |-> <<>>, modifiedAt |-> <<>>, sizeLabel |-> <<>>,
     size |-> -1, tags |-> <<>>]

NoReply == [threw |-> FALSE, isString |-> FALSE, text |-> <<>>]

NoResult == [returned |-> "undefined", filename |-> NoName, skipped |-> FALSE, context |-> NoContext]

NoDetection ==
    [present |-> FALSE, summary |-> <<>>, companyCandidates |-> <<>>,
     fundingMentions |-> <<>>, sampleTitle |-> <<>>]

UnreadOptions ==
    [filePath |-> <<>>, inputPath |-> <<>>, verbose |-> FALSE, forceChange |-> FALSE,
     recordLogEntry |-> FALSE, metadataHints |-> FALSE, appendTags |-> FALSE,
     pitchDeckMode |-> FALSE, chars |-> [finite |-> FALSE, halves |-> 0], case |-> ""]

EmptyFrame ==
    [framesOutputDir |-> NoDir, ext |-> <<>>, relativeFilePath |-> <<>>,
     fileMetadata |-> NoMetadata, finderTags |-> <<>>, content |-> <<>>, images |-> 0,
     videoPrompt |-> <<>>, modelResult |-> NoReply, newNameResult |-> NoResult,
     answer |-> <<>>, gate |-> [value |-> FALSE, readTTY |-> FALSE, asked |-> FALSE, printed |-> FALSE],
     newFileName |-> <<>>]

NoCalls ==
    [stat |-> 0, getMacOSTags |-> 0, extractFrames |-> 0, readFileContent |-> 0,
     getNewName |-> 0, promptForConfirmation |-> 0, saveFile |-> 0,
     recordLogEntry |-> 0, deleteDirectory |-> 0, thrown |-> {}]

\* Two faulty pipelines: one goes on to the log when saveFile fails, one lets
\* a failure of deleteDirectory reach the caller.
OnThrowSaveIgnored(step) ==
    CASE step \in {"stat", "deleteDirectory", "saveFile"} -> "resume"
      [] OTHER -> "catch"

OnThrowCleanupEscapes(step) ==
    CASE step = "stat" -> "resume"
      [] step = "deleteDirectory" -> "reject"
      [] OTHER -> "catch"

\* What the try, catch and finally blocks make of a failure of a step:
\* "resume" (caught on the spot, the pipeline goes on), "catch" (the outer
\* catch block reports it and the finally block runs) or "reject" (it
\* reaches the caller).
OnThrow(step) ==
    CASE step = "stat" -> "resume"
      [] step = "deleteDirectory" -> "resume"
      [] OTHER -> "catch"

\* A faulty test of the result: the filename is not looked at.
HasFilenameUnchecked(newNameResult) == newNameResult.returned = "object"

\* if (!newNameResult || !newNameResult.filename) return
HasFilename(newNameResult) ==
    newNameResult.returned = "object" /\ newNameResult.filename # NoName

\* A faulty finally block: it cleans up only when frames were extracted for
\* an image.
NeedsCleanupForImage(ext, framesOutputDir) ==
    ext # <<>> /\ isImage(ext) /\ framesOutputDir # NoDir

\* The condition of the finally block.
NeedsCleanup(ext, framesOutputDir) ==
    ext # <<>> /\ isVideo(ext) /\ framesOutputDir # NoDir

\* typeof recordLogEntry === 'function'
LogsEntries(o) == o.recordLogEntry

\* A faulty source: every rename is put down to the user.
confirmationSourceUserOnly(forceChange) == "user confirmed"

\* forceChange ? 'force-change flag' : 'user confirmed'
confirmationSource(forceChange) == IF forceChange THEN "force-change flag" ELSE "user confirmed"

LogEntry(o, fr) ==
    LET filePath == o.filePath
        newAbsolutePath == resolveIn(dirname(filePath), fr.newFileName)
        originalAbsolutePath == resolve(filePath)
        relativeNewFilePath == joinPath(dirname(fr.relativeFilePath), fr.newFileName)
    IN  [originalPath |-> originalAbsolutePath,
         newPath |-> newAbsolutePath,
         originalName |-> basename(filePath),
         newName |-> fr.newFileName,
         originalRelativePath |-> fr.relativeFilePath,
         newRelativePath |-> relativeNewFilePath,
         confirmation |-> confirmationSource(o.forceChange),
         context |-> fr.newNameResult.context,
         fileMetadata |-> fr.fileMetadata,
         finderTags |-> fr.finderTags,
         revertCommand |->
             Chars("mv ") \o quoteForShell(newAbsolutePath) \o <<" ">> \o quoteForShell(originalAbsolutePath),
         revertCommandRelative |->
             Chars("mv ") \o quoteForShell(relativeNewFilePath) \o <<" ">> \o quoteForShell(fr.relativeFilePath)]

(***************************************************************************)
(* The inputs of the pipeline                                              *)
(***************************************************************************)
FileChoices ==
    { [filePath |-> Chars("/d/.DS_Store"), inputPath |-> Chars("/d")],
      [filePath |-> Chars("/d/x.bin"), inputPath |-> Chars("/d")],
      [filePath |-> Chars("/d/a.png"), inputPath |-> Chars("/d")],
      [filePath |-> Chars("/d/b.png"), inputPath |-> Chars("/d")],
      [filePath |-> Chars("/d/s/m.mp4"), inputPath |-> Chars("/d")],
      [filePath |-> Chars("/d/q\"$b \\") \o <<Backtick>> \o Chars("c") \o <<Backtick>> \o Chars(".TXT"),
       inputPath |-> Chars("/d")],
      [filePath |-> Chars("r.pdf"), inputPath |-> Chars(".")] }

StatChoices ==
    { NoMetadata,
      [present |-> TRUE, createdAt |-> Chars("2024-03-05T10:00:00.000Z"),
       modifiedAt |-> Chars("2024-04-01T08:30:00.000Z"), sizeLabel |-> Chars("1.5 KB"),
       size |-> 1536, tags |-> <<>>] }

TagChoices == { <<>>, << Chars("Work") >> }

ContentChoices == { <<>>, << [c |-> "x", n |-> 40] >> }

ReplyChoices ==
    { [threw |-> TRUE, isString |-> FALSE, text |-> <<>>],
      [threw |-> FALSE, isString |-> FALSE, text |-> <<>>],
      [threw |-> FALSE, isString |-> TRUE, text |-> Chars("SKIP")],
      [threw |-> FALSE, isString |-> TRUE, text |-> Chars(" skip:\n not a deck")],
      [threw |-> FALSE, isString |-> TRUE, text |-> Chars("Skipper Log")],
      [threw |-> FALSE, isString |-> TRUE, text |-> Chars(" \n")],
      [threw |-> FALSE, isString |-> TRUE, text |-> Chars("?!")],
      [threw |-> FALSE, isString |-> TRUE, text |-> Chars("Filename: Q3 Budget Review")] }

AnswerChoices == { Chars("y"), Chars(" YES "), Chars("yes please"), Chars("n"), <<>> }

CharsChoices == { [finite |-> TRUE, halves |-> 60] }

\* The option bag processFile hands to getNewName.
NameOptions(o, fr) ==
    [case |-> o.case, chars |-> o.chars, language |-> "English",
     content |-> fr.content, videoPrompt |-> fr.videoPrompt, customPrompt |-> <<>>,
     originalFileName |-> basename(o.filePath), fileMetadata |-> fr.fileMetadata,
     metadataHints |-> o.metadataHints, useFilenameHint |-> TRUE,
     appendTags |-> o.appendTags, macTags |-> fr.finderTags,
     promptFocus |-> "balanced", pitchDeckMode |-> o.pitchDeckMode,
     pitchDeckDetection |-> NoDetection,
     maxPromptContentChars |-> [finite |-> FALSE, value |-> 0],
     maxPromptChars |-> [finite |-> FALSE, value |-> 0]]

(***************************************************************************)
(* The steps of the pipeline.  An option is drawn where the code first     *)
(* reads it; a step is what runs between two awaits.                       *)
(***************************************************************************)
\* A step of file f is called and returns; or it is called and throws.
Called(f, name) == calls' = [calls EXCEPT ![f][name] = @ + 1]

Threw(f, name) ==
    calls' = [calls EXCEPT ![f] = [@ EXCEPT ![name] = @ + 1, !.thrown = @ \cup {name}]]

\* A step of file f has thrown; resume is where the pipeline goes on when the
\* failure is caught on the spot, said what that handler prints.
Raise(f, step, resume, said) ==
    CASE OnThrow(step) = "resume" ->
            /\ pc' = [pc EXCEPT ![f] = resume]
            /\ console' = [console EXCEPT ![f] = @ \cup said]
            /\ UNCHANGED outcome
      [] OnThrow(step) = "catch" ->
            /\ pc' = [pc EXCEPT ![f] = "finally"]
            /\ console' = [console EXCEPT ![f] = @ \cup {"error: " \o step}]
            /\ outcome' = [outcome EXCEPT ![f] = "Error"]
      [] OTHER ->
            /\ pc' = [pc EXCEPT ![f] = "done"]
            /\ outcome' = [outcome EXCEPT ![f] = "Rejected"]
            /\ UNCHANGED console

\* A return statement inside the try block: the finally block runs next.
Return(f, how, said) ==
    /\ pc' = [pc EXCEPT ![f] = "finally"]
    /\ outcome' = [outcome EXCEPT ![f] = how]
    /\ console' = [console EXCEPT ![f] = @ \cup said]

Goto(f, next) ==
    /\ pc' = [pc EXCEPT ![f] = next]
    /\ UNCHANGED <<outcome, console>>

\* processFile is called for a file that no other call is about.
Begin(f) ==
    /\ pc[f] = "idle"
    /\ \E file \in FileChoices :
          /\ options' = [options EXCEPT ![f] =
                 [@ EXCEPT !.filePath = file.filePath, !.inputPath = file.inputPath]]
          /\ frame' = [frame EXCEPT ![f] =
                 [@ EXCEPT !.ext = toLowerCase(extname(file.filePath)),
                           !.relativeFilePath =
                               IF relative(file.inputPath, file.filePath) # <<>>
                               THEN relative(file.inputPath, file.filePath)
                               ELSE basename(file.filePath)]]
    /\ \A g \in Files \ {f} : options'[g].filePath # options'[f].filePath
    /\ Goto(f, "stat")
    /\ UNCHANGED <<calls, disk, tmpDirs, logSink, stdinIsTTY, shell, arg, ret, lastIndex>>

\* processFile is called while no other call is under way: a behaviour
\* follows one call from start to end.
Start(f) ==
    /\ \A g \in Files : pc[g] = "idle"
    /\ Begin(f)

\* fs.stat, inside its own try block.
Stat(f) ==
    /\ pc[f] = "stat"
    /\ \E stats \in StatChoices :
          IF stats.present
          THEN /\ Called(f, "stat")
               /\ frame' = [frame EXCEPT ![f].fileMetadata = stats]
               /\ Goto(f, "tags")
               /\ UNCHANGED options
          ELSE /\ Threw(f, "stat")
               /\ UNCHANGED frame
               /\ \E verbose \in BOOLEAN :
                     /\ options' = [options EXCEPT ![f].verbose = verbose]
                     /\ Raise(f, "stat", "tags",
                              IF verbose THEN {"unable to read metadata"} ELSE {})
    /\ UNCHANGED <<disk, tmpDirs, logSink, stdinIsTTY, shell, arg, ret, lastIndex>>

\* getMacOSTags, when tags or metadata hints are wanted.
Tags(f) ==
    /\ pc[f] = "tags"
    /\ \E appendTags \in BOOLEAN, metadataHints \in BOOLEAN :
          /\ options' = [options EXCEPT ![f] =
                 [@ EXCEPT !.appendTags = appendTags, !.metadataHints = metadataHints]]
          /\ IF appendTags \/ metadataHints
             THEN \/ \E tags \in TagChoices :
                           /\ Called(f, "getMacOSTags")
                           /\ frame' = [frame EXCEPT ![f] =
                                  IF Len(tags) > 0
                                  THEN [@ EXCEPT !.finderTags = tags,
                                                 !.fileMetadata = [@ EXCEPT !.present = TRUE, !.tags = tags]]
                                  ELSE @]
                           /\ Goto(f, "dispatch")
                  \/ /\ Threw(f, "getMacOSTags")
                     /\ UNCHANGED frame
                     /\ Raise(f, "getMacOSTags", "dispatch", {})
             ELSE /\ UNCHANGED <<calls, frame>>
                  /\ Goto(f, "dispatch")
    /\ UNCHANGED <<disk, tmpDirs, logSink, stdinIsTTY, shell, arg, ret, lastIndex>>

\* The early returns and the choice of the way to the content.
Dispatch(f) ==
    /\ pc[f] = "dispatch"
    /\ LET filePath == options[f].filePath
           ext == frame[f].ext
       IN  IF basename(filePath) = Chars(".DS_Store")
           THEN Return(f, "Ignored", {}) /\ UNCHANGED frame
           ELSE IF ~isProcessableFile(filePath)
           THEN Return(f, "Unsupported", {"unsupported file"}) /\ UNCHANGED frame
           ELSE IF isImage(ext)
           THEN Goto(f, "name") /\ frame' = [frame EXCEPT ![f].images = 1]
           ELSE IF isVideo(ext)
           THEN Goto(f, "frames") /\ frame' = [frame EXCEPT ![f].framesOutputDir = FramesDir(f)]
           ELSE Goto(f, "read") /\ UNCHANGED frame
    /\ UNCHANGED <<options, calls, disk, tmpDirs, logSink, stdinIsTTY, shell, arg, ret, lastIndex>>

\* extractFrames: it fills the working directory, or fails, whether or not it
\* had made the directory by then.
Frames(f) ==
    /\ pc[f] = "frames"
    /\ \/ /\ Called(f, "extractFrames")
          /\ tmpDirs' = tmpDirs \cup {frame[f].framesOutputDir}
          /\ frame' = [frame EXCEPT ![f] =
                 [@ EXCEPT !.images = 2, !.videoPrompt = << [c |-> "v", n |-> 300] >>]]
          /\ Goto(f, "name")
       \/ /\ Threw(f, "extractFrames")
          /\ \E made \in BOOLEAN :
                tmpDirs' = IF made THEN tmpDirs \cup {frame[f].framesOutputDir} ELSE tmpDirs
          /\ UNCHANGED frame
          /\ Raise(f, "extractFrames", "name", {})
    /\ UNCHANGED <<options, disk, logSink, stdinIsTTY, shell, arg, ret, lastIndex>>

\* readFileContent.
Read(f) ==
    /\ pc[f] = "read"
    /\ \/ \E content \in ContentChoices :
             /\ Called(f, "readFileContent")
             /\ frame' = [frame EXCEPT ![f].content = content]
             /\ IF content = <<>>
                THEN Return(f, "NoContent", {"no text content"})
                ELSE Goto(f, "name")
       \/ /\ Threw(f, "readFileContent")
          /\ UNCHANGED frame
          /\ Raise(f, "readFileContent", "name", {})
    /\ UNCHANGED <<options, disk, tmpDirs, logSink, stdinIsTTY, shell, arg, ret, lastIndex>>

\* getNewName: it catches whatever the model call throws.  The reply of the
\* model is one of replies, the pitch-deck mode one of modes.
NameStep(f, replies, modes) ==
    /\ pc[f] = "name"
    /\ \E reply \in replies, chars \in CharsChoices, pitchDeckMode \in modes :
          LET o == [options[f] EXCEPT !.chars = chars, !.pitchDeckMode = pitchDeckMode,
                                      !.case = "kebab"]
              newNameResult == getNewName(NameOptions(o, frame[f]), reply)
          IN  /\ calls' = [calls EXCEPT ![f] =
                     [@ EXCEPT !.getNewName = @ + 1,
                               !.thrown = IF reply.threw THEN @ \cup {"getModelResponse"} ELSE @]]
              /\ options' = [options EXCEPT ![f] = o]
              /\ frame' = [frame EXCEPT ![f] =
                     [@ EXCEPT !.modelResult = reply, !.newNameResult = newNameResult]]
              /\ IF HasFilename(newNameResult)
                 THEN Goto(f, "confirm")
                 ELSE IF newNameResult.returned = "undefined"
                 THEN Return(f, "Error", {"error: getModelResponse"})
                 ELSE Return(f, "Skipped", {})
    /\ UNCHANGED <<disk, tmpDirs, logSink, stdinIsTTY, shell, arg, ret, lastIndex>>

Name(f) == NameStep(f, ReplyChoices, BOOLEAN)

\* promptForConfirmation and the return that follows a refusal.
Confirm(f) ==
    /\ pc[f] = "confirm"
    /\ Called(f, "promptForConfirmation")
    /\ \E forceChange \in BOOLEAN :
       \E answer \in IF ~forceChange /\ stdinIsTTY THEN AnswerChoices ELSE {<<>>} :
          LET gate == promptForConfirmation(forceChange, stdinIsTTY, answer, TRUE)
          IN  /\ options' = [options EXCEPT ![f].forceChange = forceChange]
              /\ frame' = [frame EXCEPT ![f] = [@ EXCEPT !.answer = answer, !.gate = gate]]
              /\ IF gate.value
                 THEN Goto(f, "save")
                 ELSE Return(f, "Skipped",
                             {"skipped rename"} \cup
                             (IF gate.printed THEN {"no interactive terminal"} ELSE {}))
    /\ UNCHANGED <<disk, tmpDirs, logSink, stdinIsTTY, shell, arg, ret, lastIndex>>

\* The name saveFile gives the file: the proposed name, told apart from a
\* file that is there already, with the extension.
SavedNames(newName, ext, dir, files) ==
    LET plain == newName \o ext
    IN  IF resolveIn(dir, plain) \in files
        THEN { newName \o Chars("-1") \o ext }
        ELSE { plain }

\* saveFile: it renames the file in its directory, or fails and renames nothing.
Save(f) ==
    /\ pc[f] = "save"
    /\ LET filePath == options[f].filePath
           dir == dirname(filePath)
       IN  \/ \E newFileName \in SavedNames(frame[f].newNameResult.filename, frame[f].ext, dir, disk) :
                /\ Called(f, "saveFile")
                /\ disk' = (disk \ {resolve(filePath)}) \cup {resolveIn(dir, newFileName)}
                /\ frame' = [frame EXCEPT ![f].newFileName = newFileName]
                /\ pc' = [pc EXCEPT ![f] = "log"]
                /\ outcome' = [outcome EXCEPT ![f] = "Renamed"]
                /\ console' = [console EXCEPT ![f] = @ \cup {"renamed"}]
           \/ /\ Threw(f, "saveFile")
              /\ UNCHANGED <<disk, frame>>
              /\ Raise(f, "saveFile", "log", {})
    /\ UNCHANGED <<options, tmpDirs, logSink, stdinIsTTY, shell, arg, ret, lastIndex>>

\* The log entry, when the caller gave a function to record it with.
Log(f) ==
    /\ pc[f] = "log"
    /\ \E recordLogEntry \in BOOLEAN :
          /\ options' = [options EXCEPT ![f].recordLogEntry = recordLogEntry]
          /\ IF LogsEntries([recordLogEntry |-> recordLogEntry])
             THEN \/ /\ Called(f, "recordLogEntry")
                     /\ logSink' = Append(logSink, LogEntry(options[f], frame[f]))
                     /\ Goto(f, "finally")
                  \/ /\ Threw(f, "recordLogEntry")
                     /\ UNCHANGED logSink
                     /\ Raise(f, "recordLogEntry", "finally", {})
             ELSE /\ UNCHANGED <<calls, logSink>>
                  /\ Goto(f, "finally")
    /\ UNCHANGED <<frame, disk, tmpDirs, stdinIsTTY, shell, arg, ret, lastIndex>>

\* The finally block: deleteDirectory for the frames of a video.
Finally(f) ==
    /\ pc[f] = "finally"
    /\ IF NeedsCleanup(frame[f].ext, frame[f].framesOutputDir)
       THEN \/ /\ Called(f, "deleteDirectory")
               /\ tmpDirs' = tmpDirs \ {frame[f].framesOutputDir}
               /\ Goto(f, "done")
            \/ /\ Threw(f, "deleteDirectory")
               /\ UNCHANGED tmpDirs
               /\ Raise(f, "deleteDirectory", "done", {"failed to clean up frames"})
       ELSE /\ UNCHANGED <<calls, tmpDirs>>
            /\ Goto(f, "done")
    /\ UNCHANGED <<options, frame, disk, logSink, stdinIsTTY, shell, arg, ret, lastIndex>>

\* Someone runs the revertCommand of a log entry in a shell.
Revert(i) ==
    /\ i \in DOMAIN logSink
    /\ i \notin shell
    /\ \A f \in Files : pc[f] \in {"idle", "done"}
    /\ disk' = ShellRun(logSink[i].revertCommand, disk)
    /\ shell' = shell \cup {i}
    /\ UNCHANGED <<pc, options, frame, calls, console, outcome, tmpDirs, logSink, stdinIsTTY, arg, ret, lastIndex>>

Init ==
    /\ pc = [f \in Files |-> "idle"]
    /\ options = [f \in Files |-> UnreadOptions]
    /\ frame = [f \in Files |-> EmptyFrame]
    /\ calls = [f \in Files |-> NoCalls]
    /\ console = [f \in Files |-> {}]
    /\ outcome = [f \in Files |-> "None"]
    /\ disk = {resolve(file.filePath) : file \in FileChoices} \cup {Chars("/w/q3-budget-review.pdf")}
    /\ tmpDirs = {}
    /\ logSink = <<>>
    /\ stdinIsTTY \in BOOLEAN
    /\ shell = {}
    /\ arg = <<>>
    /\ ret = <<>>
    /\ lastIndex = 0

Next ==
    \/ \E f \in Files : Start(f)
    \/ \E f \in Files : Stat(f)
    \/ \E f \in Files : Tags(f)
    \/ \E f \in Files : Dispatch(f)
    \/ \E f \in Files : Frames(f)
    \/ \E f \in Files : Read(f)
    \/ \E f \in Files : Name(f)
    \/ \E f \in Files : Confirm(f)
    \/ \E f \in Files : Save(f)
    \/ \E f \in Files : Log(f)
    \/ \E f \in Files : Finally(f)
    \/ \E i \in 1..Cardinality(Files) : Revert(i)

Spec == Init /\ [][Next]_vars

(***************************************************************************)
(* Several calls of processFile under way at once: a driver starts a call  *)
(* for each file and the calls take turns at their awaits.  The driver     *)
(* runs the classifier in between.  The inputs are narrowed to a few.      *)
(***************************************************************************)
\* The files the calls are about: two images of one directory, a video and
\* a document.
InterleavedFiles ==
    << {Chars("/d/a.png"), Chars("/d/s/m.mp4")}, {Chars("/d/b.png"), Chars("r.pdf")} >>

\* The inputs drawn so far are among the few.
Narrow ==
    \A f \in Files :
        /\ pc[f] # "idle" => options[f].filePath \in InterleavedFiles[f]
        /\ ~options[f].verbose /\ ~options[f].appendTags /\ ~options[f].metadataHints
        /\ ~options[f].pitchDeckMode
        /\ "stat" \notin calls[f].thrown
        /\ (frame[f].newFileName # <<>> /\ pc[f] \in {"finally", "done"})
              => options[f].recordLogEntry
        /\ frame[f].answer \in { <<>>, Chars("y"), Chars("n") }

\* The replies of the model: it fails, or it gives a name.
InterleavedReplies ==
    { [threw |-> TRUE, isString |-> FALSE, text |-> <<>>],
      [threw |-> FALSE, isString |-> TRUE, text |-> Chars("Filename: Q3 Budget Review")] }

\* The texts the driver has the classifier look at.
DeckTexts == { Chars("series a\nAcme Robotics Inc. and Beta Labs LLC") }

\* The driver calls detectPitchDeck, which runs from start to end without
\* an await.
Detect ==
    /\ \E text \in DeckTexts :
          /\ ret' = << detectPitchDeck(text, 20000) >>
          /\ lastIndex' = CompanyScan(text, 20000, lastIndex).lastIndex
    /\ UNCHANGED <<pipelineVars, arg>>

InitInterleaved ==
    /\ pc = [f \in Files |-> "idle"]
    /\ options = [f \in Files |-> UnreadOptions]
    /\ frame = [f \in Files |-> EmptyFrame]
    /\ calls = [f \in Files |-> NoCalls]
    /\ console = [f \in Files |-> {}]
    /\ outcome = [f \in Files |-> "None"]
    /\ disk = {resolve(file.filePath) : file \in FileChoices} \cup {Chars("/w/q3-budget-review.pdf")}
    /\ tmpDirs = {}
    /\ logSink = <<>>
    /\ stdinIsTTY = TRUE
    /\ shell = {}
    /\ arg = <<>>
    /\ ret = <<>>
    /\ lastIndex = 0

NextInterleaved ==
    \/ \E f \in Files : Begin(f) /\ Narrow'
    \/ \E f \in Files : Stat(f) /\ Narrow'
    \/ \E f \in Files : Tags(f) /\ Narrow'
    \/ \E f \in Files : Dispatch(f) /\ Narrow'
    \/ \E f \in Files : Frames(f) /\ Narrow'
    \/ \E f \in Files : Read(f) /\ Narrow'
    \/ \E f \in Files : NameStep(f, InterleavedReplies, {FALSE}) /\ Narrow'
    \/ \E f \in Files : Confirm(f) /\ Narrow'
    \/ \E f \in Files : Save(f) /\ Narrow'
    \/ \E f \in Files : Log(f) /\ Narrow'
    \/ \E f \in Files : Finally(f) /\ Narrow'
    \/ Detect

SpecInterleaved == InitInterleaved /\ [][NextInterleaved]_vars

\* What a call of processFile has of its own.
Local(f) == <<pc[f], options[f], frame[f], calls[f], console[f], outcome[f]>>

\* The outcome of the call for file f by the values that call itself drew:
\* what processFile makes of them when it is the only call.
SoloOutcome(f) ==
    LET o == options[f]
        fr == frame[f]
        thrown == calls[f].thrown
    IN  IF basename(o.filePath) = Chars(".DS_Store") THEN "Ignored"
        ELSE IF ~isProcessableFile(o.filePath) THEN "Unsupported"
        ELSE IF thrown \cap {"extractFrames", "readFileContent"} # {} THEN "Error"
        ELSE IF calls[f].readFileContent > 0 /\ fr.content = <<>> THEN "NoContent"
        ELSE IF fr.modelResult.threw THEN "Error"
        ELSE IF ~HasFilename(fr.newNameResult) THEN "Skipped"
        ELSE IF ~promptForConfirmation(o.forceChange, stdinIsTTY, fr.answer, TRUE).value THEN "Skipped"
        ELSE IF thrown \cap {"saveFile", "recordLogEntry"} # {} THEN "Error"
        ELSE "Renamed"

(***************************************************************************)
(* The functions on their own: an input is drawn, the function is applied  *)
(* to it, and ret holds the one result.                                    *)
(***************************************************************************)
PipelineIdle ==
    /\ pc = [f \in Files |-> "idle"]
    /\ options = [f \in Files |-> UnreadOptions]
    /\ frame = [f \in Files |-> EmptyFrame]
    /\ calls = [f \in Files |-> NoCalls]
    /\ console = [f \in Files |-> {}]
    /\ outcome = [f \in Files |-> "None"]
    /\ disk = {}
    /\ tmpDirs = {}
    /\ logSink = <<>>
    /\ stdinIsTTY = FALSE
    /\ shell = {}
    /\ lastIndex = 0


SampleMetadata ==
    [present |-> TRUE, createdAt |-> Chars("2024-03-05T10:00:00.000Z"),
     modifiedAt |-> Chars("2024-04-01T08:30:00.000Z"), sizeLabel |-> Chars("1.5 KB"),
     size |-> 1536, tags |-> <<>>]

SampleDetection ==
    [present |-> TRUE,
     summary |-> Chars("Detected strong keywords (pitch deck)."),
     companyCandidates |-> << Chars("Acme Robotics Inc") >>,
     fundingMentions |-> << Chars("series a") >>,
     sampleTitle |-> Chars("Acme Robotics Inc investor deck")]

\* The option bag of a call of getNewName that leaves everything at its default.
PlainOptions ==
    [case |-> "kebab", chars |-> [finite |-> TRUE, halves |-> 40], language |-> "English",
     content |-> <<>>, videoPrompt |-> <<>>, customPrompt |-> <<>>,
     originalFileName |-> Chars("scan 0001.pdf"), fileMetadata |-> NoMetadata,
     metadataHints |-> TRUE, useFilenameHint |-> TRUE,
     appendTags |-> FALSE, macTags |-> <<>>,
     promptFocus |-> "balanced", pitchDeckMode |-> FALSE,
     pitchDeckDetection |-> NoDetection,
     maxPromptContentChars |-> [finite |-> FALSE, value |-> 0],
     maxPromptChars |-> [finite |-> FALSE, value |-> 0]]

\* Texts as runs: nothing, a line, words and sentences past the content
\* ceiling, and one unbroken run past the prompt ceiling.
ContentTexts ==
    { <<>>,
      << [c |-> "x", n |-> 40] >>,
      << [c |-> "a", n |-> 4000], [c |-> ".", n |-> 1], [c |-> " ", n |-> 1],
         [c |-> "b", n |-> 3000], [c |-> "\n", n |-> 1], [c |-> "c", n |-> 2000] >>,
      << [c |-> "z", n |-> 20000] >> }

PromptCeilings ==
    { [finite |-> FALSE, value |-> 0], [finite |-> TRUE, value |-> 500],
      [finite |-> TRUE, value |-> 2000], [finite |-> TRUE, value |-> 3000] }

ContentCeilings ==
    { [finite |-> FALSE, value |-> 0], [finite |-> TRUE, value |-> 100],
      [finite |-> TRUE, value |-> 50000] }

PromptInputs ==
    { [PlainOptions EXCEPT !.content = content, !.maxPromptChars = maxPromptChars,
                           !.maxPromptContentChars = maxPromptContentChars,
                           !.customPrompt = customPrompt, !.videoPrompt = videoPrompt,
                           !.fileMetadata = fileMetadata, !.pitchDeckMode = mode[1],
                           !.pitchDeckDetection = mode[2]] :
        content \in ContentTexts, maxPromptChars \in PromptCeilings,
        maxPromptContentChars \in ContentCeilings,
        customPrompt \in { <<>>, << [c |-> "p", n |-> 13000] >> },
        videoPrompt \in { <<>>, << [c |-> "v", n |-> 300] >> },
        fileMetadata \in { NoMetadata, SampleMetadata },
        mode \in { <<FALSE, NoDetection>>, <<TRUE, SampleDetection>> } }

InitPrompt == PipelineIdle /\ arg \in PromptInputs /\ ret = <<>>

\* The prompt of module.exports is budgeted for the drawn options.
Budget ==
    /\ Len(ret) = 0
    /\ ret' = << PromptBudget(arg) >>
    /\ UNCHANGED <<pipelineVars, arg, lastIndex>>

SpecPrompt == InitPrompt /\ [][Budget]_vars

\* The limits asked for: a half, one, a few, the default of the command
\* line, and none.
MaxCharLimit == 20

CharLimits ==
    { [finite |-> TRUE, halves |-> 1], [finite |-> TRUE, halves |-> 2],
      [finite |-> TRUE, halves |-> 16], [finite |-> TRUE, halves |-> 2 * MaxCharLimit],
      [finite |-> TRUE, halves |-> 60], [finite |-> FALSE, halves |-> 0] }

NameReplies ==
    { [threw |-> FALSE, isString |-> TRUE, text |-> Chars("Filename: Q3 Budget Review")],
      [threw |-> FALSE, isString |-> TRUE, text |-> Chars("?!")],
      [threw |-> FALSE, isString |-> TRUE,
       text |-> Chars("Suggested filename is \"quarterly_financial-report for the board\"")],
      [threw |-> FALSE, isString |-> TRUE, text |-> Chars("Supercalifragilisticexpialidocious")],
      [threw |-> FALSE, isString |-> TRUE, text |-> <<>>],
      [threw |-> FALSE, isString |-> TRUE, text |-> Chars(" \n")],
      [threw |-> FALSE, isString |-> TRUE, text |-> Chars("-")],
      [threw |-> FALSE, isString |-> TRUE, text |-> Chars("Sure, here it is:\nFilename: Q3 Budget Review")],
      [threw |-> FALSE, isString |-> TRUE, text |-> Chars("Here you go\nname = Report")],
      [threw |-> FALSE, isString |-> TRUE, text |-> Chars("Result\r\nName: Alpha Plan")],
      [threw |-> FALSE, isString |-> TRUE, text |-> Chars("Annual Report, 2023\nDraft")] }

NameInputs ==
    { [o |-> [PlainOptions EXCEPT !.chars = chars, !.case = case, !.appendTags = TRUE,
                                  !.macTags = macTags, !.fileMetadata = fileMetadata],
       modelResult |-> modelResult] :
        chars \in CharLimits, case \in {"kebab", "snake", "camel", "none"},
        macTags \in { <<>>, << Chars("Work"), Chars("To Do") >> },
        fileMetadata \in { NoMetadata, SampleMetadata },
        modelResult \in NameReplies }

InitName == PipelineIdle /\ arg \in NameInputs /\ ret = <<>>

\* getNewName is called with the drawn options and the model's reply.
Synthesize ==
    /\ Len(ret) = 0
    /\ ret' = << getNewName(arg.o, arg.modelResult) >>
    /\ UNCHANGED <<pipelineVars, arg, lastIndex>>

SpecName == InitName /\ [][Synthesize]_vars

\* How many keywords of each list a text of the classifier may hold.
MaxFundingMatches == 2
MaxInvestorMatches == 3
MaxSectionMatches == 6

\* A text with the first keywords of each list, a line each, under a title.
ClassifierText(title, strong, funding, investor, section) ==
    Join(title
         \o SubSeq(STRONG_KEYWORDS, 1, strong)
         \o SubSeq(FUNDING_KEYWORDS, 1, funding)
         \o SubSeq(INVESTOR_KEYWORDS, 1, investor)
         \o SubSeq(SECTION_KEYWORDS, 1, section), <<"\n">>)

ClassifierInputs ==
    { [text |-> ClassifierText(title, strong, funding, investor, section), maxChars |-> 20000] :
        title \in { <<>>, << Chars("ACME Overview") >>,
                    << Chars("Acme Robotics Inc. and Beta Labs LLC") >> },
        strong \in 0..1, funding \in 0..MaxFundingMatches,
        investor \in 0..MaxInvestorMatches, section \in 0..MaxSectionMatches }

InitClassifier == PipelineIdle /\ arg \in ClassifierInputs /\ ret = <<>>

\* detectPitchDeck is called with the drawn text.
Classify ==
    /\ Len(ret) = 0
    /\ ret' = << detectPitchDeck(arg.text, arg.maxChars) >>
    /\ lastIndex' = CompanyScan(arg.text, arg.maxChars, lastIndex).lastIndex
    /\ UNCHANGED <<pipelineVars, arg>>

SpecClassifier == InitClassifier /\ [][Classify]_vars

\* Segments of letters, digits, spaces and hyphens: up to MaxSegmentWords
\* words, one or two spaces between them.
MaxSegmentWords == 3

SegmentWords ==
    { Chars("Title"), Chars("Namespace"), Chars("name"), Chars("is"),
      Chars("Deed"), Chars("Q3"), Chars("a-b") }

RECURSIVE WordTuples(_)
WordTuples(n) ==
    IF n = 0 THEN { <<>> }
    ELSE { <<w>> \o t : w \in SegmentWords, t \in WordTuples(n - 1) }

CleanSegments ==
    { Join(t, gap) : t \in UNION { WordTuples(n) : n \in 1..MaxSegmentWords },
                     gap \in { Chars(" "), Chars("  ") } }

InitSegment == PipelineIdle /\ arg \in CleanSegments /\ ret = <<>>

\* sanitizeSegment is called with the drawn segment.
Sanitize ==
    /\ Len(ret) = 0
    /\ ret' = << sanitizeSegment(arg) >>
    /\ UNCHANGED <<pipelineVars, arg, lastIndex>>

SpecSegment == InitSegment /\ [][Sanitize]_vars

\* The ceiling of the candidate on its own, for the limits up to
\* MaxCeilingLimit in halves, those that are not positive, and one that is
\* no finite number.
MaxCeilingLimit == 100

CeilingLimits ==
    { [finite |-> TRUE, halves |-> h] : h \in -2..2 * MaxCeilingLimit }
        \cup { [finite |-> FALSE, halves |-> 0] }

InitCeiling == PipelineIdle /\ arg \in CeilingLimits /\ ret = <<>>

\* safeCharLimit and candidateLimit, as module.exports computes them from chars.
Ceiling ==
    /\ Len(ret) = 0
    /\ ret' = << candidateLimit(safeCharLimit(arg)) >>
    /\ UNCHANGED <<pipelineVars, arg, lastIndex>>

SpecCeiling == InitCeiling /\ [][Ceiling]_vars

\* The shortening of a segment on its own: a segment and a ceiling from 1
\* to MaxShortenLimit.
MaxShortenLimit == 12

ShortenInputs ==
    { [segment |-> segment, maxChars |-> maxChars] :
        segment \in CleanSegments, maxChars \in 1..MaxShortenLimit }

InitShorten == PipelineIdle /\ arg \in ShortenInputs /\ ret = <<>>

\* The body of the loop of extractFilenameCandidate for the drawn segment.
Shorten ==
    /\ Len(ret) = 0
    /\ ret' = << shortenToLimit(sanitizeSegment(arg.segment), arg.maxChars) >>
    /\ UNCHANGED <<pipelineVars, arg, lastIndex>>

SpecShorten == InitShorten /\ [][Shorten]_vars

(***************************************************************************)
(* Properties of the pipeline                                              *)
(***************************************************************************)
InitialDisk == {resolve(file.filePath) : file \in FileChoices} \cup {Chars("/w/q3-budget-review.pdf")}

\* saveFile has renamed the file of f.
Applied(f) == frame[f].newFileName # <<>>

OriginalPath(f) == resolve(options[f].filePath)

NewPath(f) == resolveIn(dirname(options[f].filePath), frame[f].newFileName)

\* The log entries of the file of f.
Entries(f) == {i \in DOMAIN logSink : logSink[i].originalPath = OriginalPath(f)}

Affirmative == {Chars("y"), Chars("yes")}

\* C1: the confirmation gate returns true whenever forceChange is set, and
\* then reads neither the terminal nor an answer; otherwise, when stdin is no
\* TTY, it returns false after printing the directive message; otherwise it
\* returns true exactly when the answer, trimmed and lower-cased, is y or yes.
C1_ConfirmationGate ==
    \A f \in Files :
        calls[f].promptForConfirmation > 0 =>
            LET gate == frame[f].gate
            IN  IF options[f].forceChange
                THEN gate.value /\ ~gate.readTTY /\ ~gate.asked
                ELSE IF ~stdinIsTTY
                THEN ~gate.value /\ gate.printed /\ ~gate.asked
                ELSE gate.asked /\ (gate.value <=> toLowerCase(trim(frame[f].answer)) \in Affirmative)

\* The gate has let through an answer that is yes only once it is trimmed
\* and lower-cased.
C1_Witness ==
    \E f \in Files :
        /\ pc[f] = "save"
        /\ ~options[f].forceChange
        /\ stdinIsTTY
        /\ frame[f].answer = Chars(" YES ")
        /\ frame[f].gate.value

\* C2: saveFile is called at most once for a file, and only after getNewName
\* has returned a filename that is not empty and the gate has then returned
\* true; a run that ends for another reason renames nothing.
C2_RenameOnlyAfterNameAndConfirmation ==
    \A f \in Files :
        /\ calls[f].saveFile <= 1
        /\ calls[f].saveFile > 0 =>
              /\ calls[f].getNewName = 1
              /\ frame[f].newNameResult.returned = "object"
              /\ frame[f].newNameResult.filename # <<>>
              /\ calls[f].promptForConfirmation = 1
              /\ frame[f].gate.value
        /\ calls[f].promptForConfirmation > 0 => calls[f].getNewName = 1
        /\ \/ outcome[f] \in {"Ignored", "Unsupported", "NoContent", "Skipped"}
           \/ frame[f].modelResult.threw
           => calls[f].saveFile = 0 /\ ~Applied(f) /\ (shell = {} => disk = InitialDisk)

\* A name was proposed, the user declined it, and the run has ended without
\* a rename.
C2_Witness ==
    \E f \in Files :
        /\ pc[f] = "done"
        /\ outcome[f] = "Skipped"
        /\ calls[f].promptForConfirmation = 1
        /\ frame[f].newNameResult.filename # <<>>
        /\ ~frame[f].gate.value
        /\ calls[f].saveFile = 0

\* C3 as the specification states it: a completed run has left exactly one
\* log entry if the rename was applied and none otherwise.
C3_EntryForEveryRename ==
    \A f \in Files :
        pc[f] = "done" => Cardinality(Entries(f)) = (IF Applied(f) THEN 1 ELSE 0)

\* C3: a completed run has left exactly one log entry if the rename was
\* applied, the caller gave a function to record entries with and that
\* function did not fail, and none otherwise; an entry is appended only after
\* the rename, so the entries never outnumber the renames applied.
C3_EntryForEveryRecordedRename ==
    /\ \A f \in Files :
          /\ Entries(f) # {} => Applied(f) /\ NewPath(f) = logSink[CHOOSE i \in Entries(f) : TRUE].newPath
          /\ pc[f] = "done" =>
                Cardinality(Entries(f)) =
                    (IF /\ Applied(f)
                        /\ options[f].recordLogEntry
                        /\ "recordLogEntry" \notin calls[f].thrown
                     THEN 1 ELSE 0)
    /\ Len(logSink) <= Cardinality({f \in Files : Applied(f)})

\* A rename was applied, the function that records entries failed, and the
\* run has ended with no entry.
C3_Witness ==
    \E f \in Files :
        /\ pc[f] = "done"
        /\ Applied(f)
        /\ "recordLogEntry" \in calls[f].thrown
        /\ Entries(f) = {}

\* C4: once the frames directory of a video is assigned, deleteDirectory is
\* called on it before the run ends, however the run ends; the directory is
\* gone unless deleteDirectory itself failed.
C4_FramesDirectoryDeleted ==
    \A f \in Files :
        pc[f] = "done" /\ frame[f].framesOutputDir # NoDir =>
            /\ calls[f].deleteDirectory = 1
            /\ "deleteDirectory" \notin calls[f].thrown => frame[f].framesOutputDir \notin tmpDirs

\* Frame extraction failed after it had made the directory, and the run has
\* ended with the directory deleted.
C4_Witness ==
    \E f \in Files :
        /\ pc[f] = "done"
        /\ frame[f].framesOutputDir # NoDir
        /\ "extractFrames" \in calls[f].thrown
        /\ calls[f].deleteDirectory = 1
        /\ tmpDirs = {}

\* What the console shows of a failure of a step.
Report(step) ==
    CASE step = "stat" -> "unable to read metadata"
      [] step = "deleteDirectory" -> "failed to clean up frames"
      [] OTHER -> "error: " \o step

\* C5 as the specification states it: whichever step fails, the failure is
\* reported.
C5_EveryFailureReported ==
    \A f \in Files : \A step \in calls[f].thrown : Report(step) \in console[f]

\* C5: no failure of a step reaches the caller; a failure of a step other
\* than the metadata probe is reported, one of the metadata probe is
\* reported when verbose is set and only then; and when the cleanup fails
\* after a rename, the rename and its log entry stay.
C5_FailuresStayInside ==
    \A f \in Files :
        /\ outcome[f] # "Rejected"
        /\ \A step \in calls[f].thrown :
              IF step = "stat"
              THEN Report(step) \in console[f] <=> options[f].verbose
              ELSE Report(step) \in console[f]
        /\ ("deleteDirectory" \in calls[f].thrown /\ Applied(f) /\ shell = {}) =>
              /\ NewPath(f) \in disk
              /\ OriginalPath(f) \notin disk
              /\ (calls[f].recordLogEntry = 1 /\ "recordLogEntry" \notin calls[f].thrown)
                     => Cardinality(Entries(f)) = 1

\* The cleanup failed after a rename that was logged, and the run has ended.
C5_Witness ==
    \E f \in Files :
        /\ pc[f] = "done"
        /\ "deleteDirectory" \in calls[f].thrown
        /\ Applied(f)
        /\ Cardinality(Entries(f)) = 1
        /\ "stat" \in calls[f].thrown

\* The replies that, with the whitespace normalized, are empty or begin with
\* the token SKIP; a reply that is no string counts as an empty one.
Declines(modelResult) ==
    \/ ~modelResult.isString
    \/ modelResult.text \in {Chars("SKIP"), Chars(" skip:\n not a deck"), Chars(" \n")}

\* C6: in pitch-deck mode a reply that is empty or begins with the token SKIP
\* makes getNewName report a skip: no filename, pitchDeckSkip set, finalName
\* null, and the run ends Skipped with no confirmation, rename or log entry.
\* Any other reply, and any reply outside pitch-deck mode, is no skip: the
\* reply SKIP then gives a filename that begins with skip.
C6_PitchDeckSkip ==
    \A f \in Files :
        (calls[f].getNewName > 0 /\ ~frame[f].modelResult.threw) =>
            LET result == frame[f].newNameResult
            IN  IF options[f].pitchDeckMode /\ Declines(frame[f].modelResult)
                THEN /\ result.returned = "object"
                     /\ result.skipped
                     /\ result.filename = NoName
                     /\ result.context.pitchDeckSkip
                     /\ result.context.finalName = NoName
                     /\ pc[f] \in {"finally", "done"}
                     /\ outcome[f] = "Skipped"
                     /\ calls[f].promptForConfirmation = 0
                     /\ calls[f].saveFile = 0
                     /\ disk = InitialDisk
                     /\ logSink = <<>>
                ELSE /\ ~result.skipped
                     /\ ~result.context.pitchDeckSkip
                     /\ frame[f].modelResult.text = Chars("SKIP") =>
                            SubSeq(result.filename, 1, 4) = Chars("skip")

\* In pitch-deck mode the model has answered skip, with a reason after it,
\* and the run has ended Skipped.
C6_Witness ==
    \E f \in Files :
        /\ pc[f] = "done"
        /\ options[f].pitchDeckMode
        /\ frame[f].modelResult.text = Chars(" skip:\n not a deck")
        /\ frame[f].newNameResult.context.pitchDeckSkip
        /\ outcome[f] = "Skipped"

\* C10: running the revertCommand of a log entry moves the file from the path
\* it was given back to its original absolute path: the files are then where
\* they were before the rename, and nothing is at the new path.
C10_RevertRestores ==
    [][\A i \in DOMAIN logSink :
          (i \notin shell /\ i \in shell') =>
              \E f \in Files :
                  /\ Entries(f) = {i}
                  /\ NewPath(f) \in disk
                  /\ OriginalPath(f) \notin disk
                  /\ OriginalPath(f) \in disk'
                  /\ NewPath(f) \notin disk'
                  /\ disk' = InitialDisk]_vars

\* The revertCommand of a file whose name holds a double quote, a dollar
\* sign, a space, a backslash and backticks has been run.
C10_Witness ==
    \E f \in Files :
        /\ shell # {}
        /\ Applied(f)
        /\ "$" \in {options[f].filePath[k] : k \in DOMAIN options[f].filePath}
        /\ OriginalPath(f) \in disk

\* Reading a quoted text back: a backslash is dropped and the character
\* after it kept.
RECURSIVE Unescaped(_)
Unescaped(s) ==
    IF s = <<>> THEN <<>>
    ELSE IF s[1] = "\\" /\ Len(s) >= 2 THEN <<s[2]>> \o Unescaped(SubSeq(s, 3, Len(s)))
    ELSE <<s[1]>> \o Unescaped(Tail(s))

\* In s a backslash stands before every character of special, and before no
\* other character.
RECURSIVE EscapesExactly(_, _)
EscapesExactly(s, special) ==
    IF s = <<>> THEN TRUE
    ELSE IF s[1] = "\\"
    THEN Len(s) >= 2 /\ s[2] \in special /\ EscapesExactly(SubSeq(s, 3, Len(s)), special)
    ELSE s[1] \notin special /\ EscapesExactly(Tail(s), special)

\* q is the path wrapped in double quotes, with exactly the characters of
\* special escaped.
QuotedPath(q, path, special) ==
    /\ Len(q) >= 2
    /\ q[1] = "\"" /\ q[Len(q)] = "\""
    /\ EscapesExactly(SubSeq(q, 2, Len(q) - 1), special)
    /\ Unescaped(SubSeq(q, 2, Len(q) - 1)) = path

\* cmd is mv, the quoted path from, a space, and the quoted path to.
MoveCommand(cmd, from, to, special) ==
    /\ Len(cmd) > 3
    /\ SubSeq(cmd, 1, 3) = Chars("mv ")
    /\ \E k \in 4..(Len(cmd) - 2) :
          /\ cmd[k + 1] = " "
          /\ QuotedPath(SubSeq(cmd, 4, k), from, special)
          /\ QuotedPath(SubSeq(cmd, k + 2, Len(cmd)), to, special)

\* C11 as the specification states it: the revert command of a log entry is
\* mv, the new path and the original path, each in double quotes with a
\* backslash before every double quote, backslash and backtick and before no
\* other character; the relative command likewise from the relative paths.
C11_RevertCommandEscapesThree ==
    \A i \in DOMAIN logSink :
        /\ MoveCommand(logSink[i].revertCommand, logSink[i].newPath,
                       logSink[i].originalPath, {"\"", "\\", Backtick})
        /\ MoveCommand(logSink[i].revertCommandRelative, logSink[i].newRelativePath,
                       logSink[i].originalRelativePath, {"\"", "\\", Backtick})

\* C11: the revert command of a log entry is mv, the new absolute path and
\* the original absolute path, each in double quotes with a backslash before
\* every double quote, backslash, backtick and dollar sign and before no
\* other character; the relative command is built likewise from the new and
\* the original relative path.
C11_RevertCommandFormat ==
    \A i \in DOMAIN logSink :
        /\ MoveCommand(logSink[i].revertCommand, logSink[i].newPath,
                       logSink[i].originalPath, {"\"", "\\", Backtick, "$"})
        /\ MoveCommand(logSink[i].revertCommandRelative, logSink[i].newRelativePath,
                       logSink[i].originalRelativePath, {"\"", "\\", Backtick, "$"})

\* An entry is logged for a file whose name holds a double quote, a dollar
\* sign, a backslash and a backtick.
C11_Witness ==
    \E i \in DOMAIN logSink :
        {"\"", "$", "\\", Backtick} \subseteq
            {logSink[i].originalRelativePath[k] : k \in DOMAIN logSink[i].originalRelativePath}

\* The file a log entry is about.
FileOf(i) == CHOOSE f \in Files : i \in Entries(f)

\* C12 as the specification states it: the confirmation source of a log
\* entry is force-change or user confirmed.
C12_SourceIsForceChange ==
    \A i \in DOMAIN logSink :
        /\ logSink[i].confirmation \in {"force-change", "user confirmed"}
        /\ logSink[i].confirmation = "force-change" <=> options[FileOf(i)].forceChange

\* C12: the confirmation source of a log entry is one of the two values
\* force-change flag and user confirmed: the first when the rename was
\* applied because forceChange was set, the second when it was applied after
\* an affirmative answer at the terminal.
C12_ConfirmationSource ==
    \A i \in DOMAIN logSink :
        LET f == FileOf(i)
        IN  /\ logSink[i].confirmation \in {"force-change flag", "user confirmed"}
            /\ logSink[i].confirmation = "force-change flag" <=> options[f].forceChange
            /\ logSink[i].confirmation = "user confirmed" <=>
                  /\ ~options[f].forceChange
                  /\ frame[f].gate.asked
                  /\ toLowerCase(trim(frame[f].answer)) \in Affirmative

\* An entry is logged for a rename that forceChange let through without a
\* question.
C12_Witness ==
    \E i \in DOMAIN logSink :
        /\ options[FileOf(i)].forceChange
        /\ ~frame[FileOf(i)].gate.asked
        /\ logSink[i].confirmation = "force-change flag"

(***************************************************************************)
(* Properties of the functions                                             *)
(***************************************************************************)
\* C7 as the specification states it: the prompt is no longer than the
\* ceiling the caller supplied, 12000 when none was supplied.
C7_PromptWithinSuppliedCeiling ==
    Len(ret) = 1 =>
        ret[1].promptLength <=
            (IF arg.maxPromptChars.finite THEN arg.maxPromptChars.value ELSE 12000)

\* C7: the prompt is no longer than the ceiling in force, which is the
\* supplied one but at least 2000, and 12000 when none was supplied; and the
\* content-truncated flag is set whenever the snippet is not the content.
C7_PromptWithinCeiling ==
    Len(ret) = 1 =>
        /\ ret[1].promptLength <=
              (IF ~arg.maxPromptChars.finite THEN 12000
               ELSE IF arg.maxPromptChars.value < 2000 THEN 2000
               ELSE arg.maxPromptChars.value)
        /\ ret[1].contentSnippet # arg.content => ret[1].contentTruncated

\* The prompt was over its ceiling even with the snippet cut, and was cut to
\* the ceiling.
C7_Witness ==
    /\ Len(ret) = 1
    /\ arg.maxPromptChars = [finite |-> TRUE, value |-> 3000]
    /\ arg.content # <<>>
    /\ ret[1].promptTrimmed
    /\ ret[1].assembledLength > 3000
    /\ ret[1].promptLength = 3000

\* C18: the content gives way before the rest of the prompt: when the prompt
\* was cut to its ceiling (promptTrimmed), no content snippet was left in
\* it, and when there was content to begin with it had been reduced first;
\* and when a content snippet is left in the prompt, the prompt is the
\* assembled one, whole, with nothing of the instructions, directives, hints
\* or custom instructions cut.
C18_ContentGivesWayFirst ==
    Len(ret) = 1 =>
        /\ ret[1].promptTrimmed =>
              /\ ret[1].contentSnippet = <<>>
              /\ arg.content # <<>> => ret[1].contentTruncated
        /\ ret[1].contentSnippet # <<>> =>
              /\ ~ret[1].promptTrimmed
              /\ ret[1].promptLength = ret[1].assembledLength

\* There was content, the second cut left nothing of it, and the prompt was
\* still over its ceiling and was cut.
C18_Witness ==
    /\ Len(ret) = 1
    /\ arg.content # <<>>
    /\ ret[1].secondCut
    /\ ret[1].contentSnippet = <<>>
    /\ ret[1].promptTrimmed

\* C8 as the specification states it: the filename getNewName returns is no
\* longer than the character limit asked for.
C8_NameWithinLimit ==
    (Len(ret) = 1 /\ ret[1].returned = "object" /\ ret[1].filename # NoName
        /\ arg.o.chars.finite /\ arg.o.chars.halves > 0)
    => 2 * Len(ret[1].filename) <= arg.o.chars.halves

\* The same for the limits that are whole numbers, where it holds.
C8_NameWithinWholeLimit ==
    (Len(ret) = 1 /\ ret[1].returned = "object" /\ ret[1].filename # NoName
        /\ arg.o.chars.finite /\ arg.o.chars.halves >= 2 /\ arg.o.chars.halves % 2 = 0)
    => 2 * Len(ret[1].filename) <= arg.o.chars.halves

\* C9: the verdict of the classifier is true exactly when the score it
\* returns is at least 3.5 (14 quarters), or a strong keyword matched, or at
\* least four section keywords matched; for an empty text the verdict is
\* false and the score 0.
C9_VerdictRule ==
    Len(ret) = 1 =>
        /\ ret[1].isPitchDeck <=>
              \/ ret[1].confidenceScore >= 14
              \/ Len(ret[1].matchedKeywords) > 0
              \/ Len(ret[1].sectionMentions) >= 4
        /\ arg.text = <<>> => ~ret[1].isPitchDeck /\ ret[1].confidenceScore = 0

\* A text with two funding keywords and investor language, no strong keyword
\* and fewer than four sections, is a pitch deck by its score alone.
C9_Witness ==
    /\ Len(ret) = 1
    /\ ret[1].isPitchDeck
    /\ ret[1].confidenceScore \in 14..15
    /\ Len(ret[1].matchedKeywords) = 0
    /\ Len(ret[1].sectionMentions) < 4

\* C13 as the specification states it: sanitizing a segment of letters,
\* digits, spaces and hyphens returns the segment, with runs of whitespace
\* collapsed and the ends trimmed: no letter or word of it is removed.
C13_CleanSegmentKept ==
    Len(ret) = 1 => ret[1] = trim(CollapseSpace(arg))

\* The same for the segments that do not begin with the letters of a label
\* (filename, file name, suggested filename, suggested file name, name,
\* title), where it holds.
C13_UnlabelledSegmentKept ==
    (Len(ret) = 1 /\ \A k \in 1..Len(LabelWords) : ~MatchAt(arg, 1, LabelWords[k]))
    => ret[1] = trim(CollapseSpace(arg))

\* A segment that begins with a word other than a label has been sanitized
\* and has two spaces collapsed into one.
C13_Witness ==
    /\ Len(ret) = 1
    /\ arg = Chars("Deed  Title")
    /\ ret[1] = Chars("Deed Title")

\* s begins with p.
StartsWith(s, p) == Len(s) >= Len(p) /\ SubSeq(s, 1, Len(p)) = p

\* What extractFilenameCandidate makes of the reply of the call in arg.
CandidateOfReply ==
    extractFilenameCandidate(arg.modelResult, candidateLimit(safeCharLimit(arg.o.chars)))

\* C14: outside pitch-deck skip handling, for every reply that is a string,
\* an empty one and one of which nothing survives sanitizing included,
\* getNewName returns a filename that is not empty.  When no candidate was
\* extracted, or none is left of it after the case conversion, the name is
\* derived from the phrase renamed file (with the tags and the date appended
\* to it, which may take the place of its second word), case-converted and
\* cut to the limit in force, and usedFallback is true; when a candidate was extracted and the
\* name derives from it, usedFallback is false.
C14_FallbackPhrase ==
    (Len(ret) = 1 /\ arg.modelResult.isString /\ ~arg.o.pitchDeckMode) =>
        LET context == ret[1].context
            phrase == changeCase(Chars("renamed file"), arg.o.case)
        IN  /\ ret[1].returned = "object"
            /\ ret[1].filename # NoName
            /\ context.finalName = ret[1].filename
            /\ context.charLimit > 0 => Len(ret[1].filename) <= context.charLimit
            /\ IF CandidateOfReply = <<>>
               THEN /\ context.usedFallback
                    /\ \/ StartsWith(context.candidate, Chars("renamed file"))
                       \/ /\ context.metadataFallbackApplied
                          /\ StartsWith(context.candidate, Chars("renamed "))
                    /\ StartsWith(changeCase(context.candidate, arg.o.case), ret[1].filename)
                    /\ \/ StartsWith(Chars("renamed"), ret[1].filename)
                       \/ StartsWith(ret[1].filename, Chars("renamed"))
               ELSE IF changeCase(context.candidate, arg.o.case) = <<>>
               THEN /\ context.usedFallback
                    /\ StartsWith(phrase, ret[1].filename)
               ELSE /\ ~context.usedFallback
                    /\ ~StartsWith(context.candidate, Chars("renamed"))

\* The reply was empty, and the name is the fallback phrase in kebab case.
C14_Witness ==
    /\ Len(ret) = 1
    /\ arg.modelResult.text = <<>>
    /\ arg.o.case = "kebab"
    /\ arg.o.macTags = <<>>
    /\ ret[1].filename = Chars("renamed-file")
    /\ ret[1].context.usedFallback

\* The labels of a value as the specification lists them, each followed by
\* is, = or a colon: the value goes on to the end of the line.
StatedLabels ==
    << Chars("suggested filename"), Chars("filename"), Chars("file name"), Chars("name") >>

StatedLabelAt(s, i) ==
    LET w == WordAt(s, i, StatedLabels)
        a == SkipSpace(s, i + w)
        op == WordAt(s, a, LabelOperators)
    IN  IF w = 0 \/ op = 0 THEN 0
        ELSE GroupStart(s, a + op, SkipSpace(s, a + op))

\* The first of the segments of which something is left when it is
\* sanitized, sanitized; nothing when there is none.
FirstNonEmpty(segments) ==
    LET left == {k \in 1..Len(segments) : sanitizeSegment(segments[k]) # <<>>}
    IN  IF left = {} THEN <<>> ELSE sanitizeSegment(segments[Min(left)])

\* The candidate getNewName reports for the reply in arg is the one that the
\* labelled values, then the lines, then the parts between commas and
\* semicolons give, shortened to the ceiling; renamed file when none.
CandidateInOrder(labelled) ==
    LET normalized == NormalizeReply(arg.modelResult.text)
        chosen == Or(FirstNonEmpty(labelled),
                     Or(FirstNonEmpty(SplitChar(normalized, "\n")),
                        FirstNonEmpty(SplitRuns(normalized, {",", ";"}))))
    IN  ret[1].context.candidate =
            Or(shortenToLimit(chosen, candidateLimit(safeCharLimit(arg.o.chars))),
               Chars("renamed file"))

\* A call with a reply that is a string, no tags and no date to append, that
\* has returned a name.
PlainCallReturned ==
    /\ Len(ret) = 1 /\ ret[1].returned = "object"
    /\ arg.modelResult.isString
    /\ arg.o.macTags = <<>> /\ arg.o.fileMetadata = NoMetadata

\* Scenario A.
ScenarioA ==
    (arg.modelResult.text = Chars("Filename: Q3 Budget Review")
        /\ arg.o.case = "kebab" /\ arg.o.chars = [finite |-> TRUE, halves |-> 60])
    => /\ ret[1].context.candidate = Chars("Q3 Budget Review")
       /\ ret[1].filename = Chars("q3-budget-review")

\* C19 as the specification states it: the value that follows filename,
\* file name, suggested filename or name and is, = or a colon comes before
\* every line of the reply, the lines before the parts between commas and
\* semicolons, and the first of which something is left wins.
C19_StatedLabelsFirst ==
    PlainCallReturned =>
        /\ CandidateInOrder(PatternSegment(NormalizeReply(arg.modelResult.text), StatedLabelAt))
        /\ ScenarioA

\* C19: the segments are tried in a fixed order and the first of which
\* something is left after sanitizing wins: the value captured by one of
\* the three patterns (filename or file name and is, = or a colon;
\* suggested, proposed or recommended and filename or file name, with or
\* without is, = or a colon; name and a colon) comes before every line of
\* the reply, and the lines before the parts between commas and semicolons.
\* So the reply Filename: Q3 Budget Review with kebab case, limit 30, no
\* tags and no date gives the candidate Q3 Budget Review and the name
\* q3-budget-review.
C19_ExtractionOrder ==
    PlainCallReturned =>
        /\ CandidateInOrder(
               LET normalized == NormalizeReply(arg.modelResult.text)
               IN  PatternSegment(normalized, Pattern1At)
                       \o PatternSegment(normalized, Pattern2At)
                       \o PatternSegment(normalized, Pattern3At))
        /\ ScenarioA

\* The labelled value stood on the second line of the reply and was taken,
\* not the first line.
C19_Witness ==
    /\ PlainCallReturned
    /\ arg.modelResult.text = Chars("Sure, here it is:\nFilename: Q3 Budget Review")
    /\ arg.o.case = "kebab" /\ arg.o.chars = [finite |-> TRUE, halves |-> 60]
    /\ ret[1].context.candidate = Chars("Q3 Budget Review")
    /\ ret[1].filename = Chars("q3-budget-review")

(***************************************************************************)
(* Calls of processFile that take turns                                    *)
(***************************************************************************)
\* The log sink holds whole entries, one for each rename that was applied
\* and recorded, each made of the values of its own call.
WholeEntries ==
    /\ \A i \in DOMAIN logSink :
          \E f \in Files : Applied(f) /\ logSink[i] = LogEntry(options[f], frame[f])
    /\ \A f \in Files :
          /\ Cardinality(Entries(f)) <= 1
          /\ Entries(f) # {} => Applied(f)
          /\ (pc[f] = "done" /\ Applied(f) /\ "recordLogEntry" \notin calls[f].thrown)
                => Cardinality(Entries(f)) = 1

\* A step is a step of one call: it leaves what the other calls have alone,
\* the log sink changes by one entry added at its end, and of the working
\* directories only the one of the call that took the step changes.
OneCallSteps ==
    /\ \A f \in Files, g \in Files :
          (f # g /\ Local(f)' # Local(f)) => Local(g)' = Local(g)
    /\ \/ logSink' = logSink
       \/ \E f \in Files :
             /\ pc[f] = "log" /\ pc'[f] # "log"
             /\ logSink' = Append(logSink, LogEntry(options[f], frame[f]))
    /\ \A f \in Files :
          (FramesDir(f) \in tmpDirs') # (FramesDir(f) \in tmpDirs) => Local(f)' # Local(f)

ValidLimit(chars) == chars.finite /\ chars.halves > 0

\* The ceiling of the candidate is the limit and a quarter of it, rounded
\* down, for a valid limit, and 120 for a limit that is not valid.  (The
\* limit is chars.halves / 2, so twice the ceiling is compared.)
C16_CeilingIsLimitAndQuarter ==
    ret # <<>> =>
        IF ValidLimit(arg)
        THEN 2 * ret[1] = arg.halves + 2 * (arg.halves \div 8)
        ELSE ret[1] = 120

\* C16: the ceiling of the candidate is the whole limit L and an allowance of
\* a quarter of L, rounded down, or 20 if that is more, where L is the
\* character limit rounded down when it is a finite positive number and 20
\* when it is not; the ceiling is 120 only when L is 0, which is so for a
\* positive limit below 1.
C16_CeilingIsLimitAndAllowance ==
    ret # <<>> =>
        LET L == IF ValidLimit(arg) THEN arg.halves \div 2 ELSE 20
        IN  ret[1] = IF L = 0 THEN 120 ELSE L + Max({20, L \div 4})

\* The ceiling was worked out for a limit whose quarter is more than 20.
C16_Witness ==
    /\ ret # <<>> /\ ValidLimit(arg)
    /\ (arg.halves \div 2) \div 4 > 20
    /\ ret[1] = arg.halves \div 2 + (arg.halves \div 2) \div 4


(***************************************************************************)
(* The shortening of a segment                                             *)
(***************************************************************************)
\* r is made of the first words of text, whole: text goes on with a space
\* after it.
WholeWordPrefix(r, text) ==
    /\ r # <<>> /\ Len(r) < Len(text)
    /\ SubSeq(text, 1, Len(r)) = r
    /\ r[Len(r)] # " " /\ text[Len(r) + 1] = " "

\* The length of the first word of text.
FirstWordLength(text) ==
    LET spaces == {i \in 1..Len(text) : text[i] = " "}
    IN  IF spaces = {} THEN Len(text) ELSE Min(spaces) - 1

\* C17 as the specification states it: a sanitized segment longer than the
\* ceiling is shortened to its first words, whole, and to the ceiling at
\* most, whatever the segment and the ceiling.
C17_ShortenedAtWordBoundary ==
    (ret # <<>> /\ Len(sanitizeSegment(arg.segment)) > arg.maxChars) =>
        /\ Len(ret[1]) <= arg.maxChars
        /\ WholeWordPrefix(ret[1], sanitizeSegment(arg.segment))

\* C17: a sanitized segment longer than the ceiling is shortened to its
\* first words, whole, and to the ceiling at most, when its first word fits
\* the ceiling; when the first word is longer than the ceiling, the result
\* is the first characters of the segment up to the ceiling, cut inside
\* that word.
C17_ShortenedAtWordBoundaryOrCut ==
    (ret # <<>> /\ Len(sanitizeSegment(arg.segment)) > arg.maxChars) =>
        LET cleaned == sanitizeSegment(arg.segment)
        IN  /\ Len(ret[1]) <= arg.maxChars
            /\ IF FirstWordLength(cleaned) <= arg.maxChars
               THEN WholeWordPrefix(ret[1], cleaned)
               ELSE ret[1] = SubSeq(cleaned, 1, arg.maxChars)

\* A segment of three words was shortened to its first two.
C17_Witness ==
    /\ ret # <<>>
    /\ arg.segment = Chars("Deed Q3 Namespace") /\ arg.maxChars = 9
    /\ ret[1] = Chars("Deed Q3")


====
